---- MODULE Spec2Model ----
(***************************************************************************)
(* Model of the expo wait-time ETL pipeline (etl/etl.py), the master-load  *)
(* scripts (scripts/*.py) and the SQLite store they share.                 *)
(*                                                                         *)
(* Text is modelled as a sequence of tokens; a token is one character or a *)
(* fixed multi-character chunk ("時間", "以下", "以上", "情報なし", ...).  *)
(* A cell of the raw CSV is either a string or a non-string (NaN / None).  *)
(* An Optional[int] is <<>> (None) or <<n>>.                               *)
(*                                                                         *)
(* Tokens are written in ASCII:                                            *)
(*   JIKAN = 時間   FUN = 分   IKA = 以下   IJOU = 以上   MAE = 前         *)
(*   JOUHOU_NASHI = 情報なし   FUMEI = 不明   EM_DASH = —                  *)
(*   IDEOGRAPHIC_SPACE = U+3000   FULLWIDTH_1 = １   FULLWIDTH_6 = ６      *)
(*   FULLWIDTH_I = Ｉ   E_ACUTE = U+00E9   COMBINING_ACUTE = U+0301         *)
(*   ACUTE_ACCENT = U+00B4                                                 *)
(***************************************************************************)
EXTENDS Integers, Sequences, FiniteSets, TLC

\* ------------------------------------------------------------------------
\* Bounds of the model
\* ------------------------------------------------------------------------
MaxWaitLen == 5
MaxStaleLen == 5
MaxEtlRuns == 2
MaxMasterLoads == 2
MaxNameLen == 3
MaxBulk == 19

\* ------------------------------------------------------------------------
\* Defaults of the read side
\* ------------------------------------------------------------------------
\* get_ranking(con, days, top_n=20)
TOP_N == 20

\* Filters.min_samples: int = 3
MIN_SAMPLES == 3

\* ------------------------------------------------------------------------
\* Values
\* ------------------------------------------------------------------------
Str(s) == [isStr |-> TRUE, s |-> s]
NonStr == [isStr |-> FALSE, s |-> <<>>]

None == <<>>
Some(n) == <<n>>

\* characters matched by \s and removed by str.strip()
IsSpace(c) == c \in {" ", "IDEOGRAPHIC_SPACE"}

\* characters matched by \d and accepted by int(): decimal digits, ASCII or not
DigitVal(c) ==
  CASE c = "0" -> 0 [] c = "1" -> 1 [] c = "2" -> 2 [] c = "3" -> 3
    [] c = "4" -> 4 [] c = "5" -> 5 [] c = "6" -> 6 [] c = "7" -> 7
    [] c = "8" -> 8 [] c = "9" -> 9 [] c = "FULLWIDTH_1" -> 1 [] c = "FULLWIDTH_6" -> 6
    [] OTHER -> -1

IsDigit(c) == DigitVal(c) >= 0

RECURSIVE int(_)
int(d) ==
  IF Len(d) = 0 THEN 0
  ELSE int(SubSeq(d, 1, Len(d) - 1)) * 10 + DigitVal(d[Len(d)])

RECURSIVE lstrip(_)
lstrip(s) ==
  IF Len(s) > 0 /\ IsSpace(s[1]) THEN lstrip(Tail(s)) ELSE s

RECURSIVE rstrip(_)
rstrip(s) ==
  IF Len(s) > 0 /\ IsSpace(s[Len(s)]) THEN rstrip(SubSeq(s, 1, Len(s) - 1)) ELSE s

strip(s) == rstrip(lstrip(s))

\* ------------------------------------------------------------------------
\* Regular expressions of etl.py: a pattern is a sequence of elements
\*   ws  = \s*      num = (\d+)      lit = one literal token
\* anchored at both ends (^ ... $).
\* ------------------------------------------------------------------------
WS == [t |-> "ws", c |-> ""]
NUM == [t |-> "num", c |-> ""]
L(c) == [t |-> "lit", c |-> c]

RECURSIVE SkipWhileSpace(_, _)
SkipWhileSpace(s, i) ==
  IF i <= Len(s) /\ IsSpace(s[i]) THEN SkipWhileSpace(s, i + 1) ELSE i

RECURSIVE SkipWhileDigit(_, _)
SkipWhileDigit(s, i) ==
  IF i <= Len(s) /\ IsDigit(s[i]) THEN SkipWhileDigit(s, i + 1) ELSE i

NoMatch == [ok |-> FALSE, groups |-> <<>>]

\* pat.match(s): the groups of the match, or no match.  Every quantifier is
\* followed by an element that cannot start with what it repeats, so greedy
\* matching never backtracks.
RECURSIVE MatchAt(_, _, _, _, _)
MatchAt(pat, k, s, i, groups) ==
  IF k > Len(pat) THEN
    IF i = Len(s) + 1 THEN [ok |-> TRUE, groups |-> groups] ELSE NoMatch
  ELSE IF pat[k].t = "ws" THEN
    MatchAt(pat, k + 1, s, SkipWhileSpace(s, i), groups)
  ELSE IF pat[k].t = "num" THEN
    LET j == SkipWhileDigit(s, i) IN
      IF j = i THEN NoMatch
      ELSE MatchAt(pat, k + 1, s, j, Append(groups, SubSeq(s, i, j - 1)))
  ELSE
    IF i <= Len(s) /\ s[i] = pat[k].c
      THEN MatchAt(pat, k + 1, s, i + 1, groups)
      ELSE NoMatch

match(pat, s) == MatchAt(pat, 1, s, 1, <<>>)

WAIT_PATTERNS ==
  << [re |-> <<WS, NUM, L("JIKAN"), NUM, L("FUN"), L("IKA"), WS>>, calc |-> "hm"],
     [re |-> <<WS, NUM, L("JIKAN"), NUM, L("FUN"), WS>>,            calc |-> "hm"],
     [re |-> <<WS, NUM, L("FUN"), L("IKA"), WS>>,                 calc |-> "m"],
     [re |-> <<WS, NUM, L("FUN"), WS>>,                            calc |-> "m"] >>

\* the floor rule written as a capture: "<N>FUN IJOU MAE" parses to N
StalePatternsFloorCaptures ==
  << [re |-> <<WS, NUM, L("FUN"), L("MAE"), WS>>,            calc |-> "m"],
     [re |-> <<WS, NUM, L("JIKAN"), L("MAE"), WS>>,          calc |-> "h"],
     [re |-> <<WS, NUM, L("FUN"), L("IJOU"), L("MAE"), WS>>, calc |-> "m"] >>

STALE_PATTERNS ==
  << [re |-> <<WS, NUM, L("FUN"), L("MAE"), WS>>,                        calc |-> "m"],
     [re |-> <<WS, NUM, L("JIKAN"), L("MAE"), WS>>,                      calc |-> "h"],
     [re |-> <<WS, L("6"), L("0"), L("FUN"), L("IJOU"), L("MAE"), WS>>,  calc |-> "60"] >>

\* the hour rule with the minutes dropped
HoursOnly(h, m) == int(h) * 60

\* lambda h, m: int(h)*60 + int(m)
HoursAndMinutes(h, m) == int(h) * 60 + int(m)

Calc(calc, g) ==
  CASE calc = "hm" -> HoursAndMinutes(g[1], g[2])
    [] calc = "m"  -> int(g[1])
    [] calc = "h"  -> int(g[1]) * 60
    [] calc = "60" -> 60

\* for pat, calc in PATTERNS: m = pat.match(s); if m: return calc(...)
RECURSIVE FirstMatch(_, _, _)
FirstMatch(pats, k, s) ==
  IF k > Len(pats) THEN None
  ELSE LET m == match(pats[k].re, s) IN
    IF m.ok THEN Some(Calc(pats[k].calc, m.groups))
    ELSE FirstMatch(pats, k + 1, s)

WaitSentinels == { <<"JOUHOU_NASHI">>, <<"EM_DASH">>, <<"-">>, <<"FUMEI">>, <<>> }

parse_wait_time(raw) ==
  IF ~raw.isStr THEN None
  ELSE LET s == strip(raw.s) IN
    IF s \in WaitSentinels THEN None
    ELSE FirstMatch(WAIT_PATTERNS, 1, s)

parse_staleness_min(raw) ==
  IF ~raw.isStr THEN None
  ELSE FirstMatch(STALE_PATTERNS, 1, strip(raw.s))

\* ------------------------------------------------------------------------
\* Pavilion names and identifiers
\* ------------------------------------------------------------------------
\* unicodedata.normalize("NFKC", .): the compatibility decomposition of one
\* character ...
NFKC(c) ==
  CASE c = "FULLWIDTH_I" -> <<"I">>
    [] c = "FULLWIDTH_1" -> <<"1">>
    [] c = "FULLWIDTH_6" -> <<"6">>
    [] c = "IDEOGRAPHIC_SPACE" -> <<" ">>
    [] c = "ACUTE_ACCENT" -> <<" ", "COMBINING_ACUTE">>
    [] c = "E_ACUTE" -> <<"e", "COMBINING_ACUTE">>
    [] OTHER -> <<c>>

RECURSIVE Decompose(_)
Decompose(s) ==
  IF Len(s) = 0 THEN <<>> ELSE NFKC(s[1]) \o Decompose(Tail(s))

\* ... followed by the canonical composition of a base character with the
\* combining mark right after it
RECURSIVE Compose(_)
Compose(s) ==
  IF Len(s) < 2 THEN s
  ELSE IF s[1] = "e" /\ s[2] = "COMBINING_ACUTE"
    THEN <<"E_ACUTE">> \o Compose(SubSeq(s, 3, Len(s)))
    ELSE <<s[1]>> \o Compose(Tail(s))

nfkc(s) == Compose(Decompose(s))

\* re.sub(r"\s+", "", s)
RECURSIVE RemoveSpace(_)
RemoveSpace(s) ==
  IF Len(s) = 0 THEN <<>>
  ELSE IF IsSpace(s[1]) THEN RemoveSpace(Tail(s))
  ELSE <<s[1]>> \o RemoveSpace(Tail(s))

\* etl.normalize_name: a non-string is returned unchanged
normalize_name(x) ==
  IF ~x.isStr THEN x ELSE Str(RemoveSpace(strip(nfkc(x.s))))

\* "pav_" + sha1(normalized name).hexdigest()[:hex]; sha1 is modelled as
\* injective on the names of the model
PavId(hex, norm) == [hex |-> hex, sha1 |-> norm]

\* load_master_from_geojson.make_pavilion_id
make_pavilion_id(name) == PavId(8, normalize_name(name).s)

\* prepare_pavilion_master.pav_id_from_norm
pav_id_from_norm(norm) == PavId(10, norm)

\* ------------------------------------------------------------------------
\* Timestamps.  A timestamp cell is missing ("nan"), unparseable text
\* ("bad") or an ISO text ("iso") of day 2025-06-(d+1), hour h, minute mi,
\* with a UTC offset of off hours when aware.
\* ------------------------------------------------------------------------
TsNaN == [kind |-> "nan", d |-> 0, h |-> 0, mi |-> 0, aware |-> FALSE, off |-> 0]
TsBad == [kind |-> "bad", d |-> 0, h |-> 0, mi |-> 0, aware |-> FALSE, off |-> 0]
TsIso(d, h, mi, off) ==
  [kind |-> "iso", d |-> d, h |-> h, mi |-> mi, aware |-> TRUE, off |-> off]

\* weekday_map[day_name()]: 2025-06-01 is a Sunday.
\*   NICHI = 日曜日, GETSU = 月曜日, KA = 火曜日, SUI = 水曜日,
\*   MOKU = 木曜日, KIN = 金曜日, DO = 土曜日
weekday_map == <<"NICHI", "GETSU", "KA", "SUI", "MOKU", "KIN", "DO">>

\* the text "2025-06-DD" as <<year, month, day>>
DayText(d) == <<2025, 6, d + 1>>

\* the text "HH:00" as <<hour, 0>>
HourText(h) == <<h, 0>>

\* dt.tz_convert("Asia/Tokyo") for an aware value, the value itself otherwise
ToJst(ts) ==
  IF ts.aware
    THEN LET total == ts.d * 24 + ts.h + (9 - ts.off) IN
         [ts EXCEPT !.d = total \div 24, !.h = total % 24, !.off = 9]
    ELSE ts

\* pd.to_datetime(errors="coerce") yields NaT for a missing or unparseable cell
IsNaT(ts) == ts.kind # "iso"

\* enrich_time_features on one row, followed by main's day / hour columns
enrich_time_features(row) ==
  LET ts == row.timestamp IN
  [ weekday       |-> IF IsNaT(ts) THEN None ELSE Some(weekday_map[(ts.d % 7) + 1]),
    hour_range    |-> IF IsNaT(ts) THEN None ELSE Some(HourText(ts.h)),
    data_time_jst |-> IF IsNaT(ts) THEN None ELSE Some(ToJst(ts)) ]

\* raw_df["data_time_jst"].str.slice(0, 10)
DayOf(data_time_jst) ==
  IF data_time_jst = None THEN None ELSE Some(DayText(data_time_jst[1].d))

\* ------------------------------------------------------------------------
\* Tables: a table is the sequence of its rows in rowid order
\* ------------------------------------------------------------------------
KeyOf(r, pk) == [i \in 1..Len(pk) |-> r[pk[i]]]

Keys(table, pk) == { KeyOf(table[i], pk) : i \in 1..Len(table) }

\* INSERT OR IGNORE: a row whose primary key is present is skipped
RECURSIVE InsertOrIgnore(_, _, _)
InsertOrIgnore(table, rows, pk) ==
  IF Len(rows) = 0 THEN table
  ELSE IF KeyOf(rows[1], pk) \in Keys(table, pk)
    THEN InsertOrIgnore(table, Tail(rows), pk)
    ELSE InsertOrIgnore(Append(table, rows[1]), Tail(rows), pk)

RECURSIVE DeleteKey(_, _, _)
DeleteKey(table, key, pk) ==
  IF Len(table) = 0 THEN <<>>
  ELSE IF KeyOf(table[1], pk) = key THEN DeleteKey(Tail(table), key, pk)
  ELSE <<table[1]>> \o DeleteKey(Tail(table), key, pk)

\* INSERT OR REPLACE: the row with the same primary key is deleted first
RECURSIVE InsertOrReplace(_, _, _)
InsertOrReplace(table, rows, pk) ==
  IF Len(rows) = 0 THEN table
  ELSE InsertOrReplace(Append(DeleteKey(table, KeyOf(rows[1], pk), pk), rows[1]),
                       Tail(rows), pk)

\* DataFrame.drop_duplicates(subset=pk): the first row of each key is kept
drop_duplicates(rows, pk) == InsertOrIgnore(<<>>, rows, pk)

\* primary keys of the store
\* waits_fact keyed by the raw spelling instead of the resolved identifier
FactKeyByRawName == <<"timestamp", "pavilion_name_raw">>

WAITS_FACT_PK == <<"timestamp", "pavilion_id">>
UNRESOLVED_PK == <<"timestamp", "pavilion_name_raw">>
DIM_PK == <<"pavilion_id">>
ALIAS_PK == <<"alias">>
GEOMETRY_PK == <<"pavilion_id">>

\* ------------------------------------------------------------------------
\* ETL transformation (etl.main, steps 2 to 5)
\* ------------------------------------------------------------------------
\* {alias: pid for (alias, pid) in rows}.get(normalize_name(name))
resolve_pavilion_id(name, alias_map) ==
  IF ~name.isStr THEN None
  ELSE LET n == normalize_name(name).s
           hits == { i \in 1..Len(alias_map) : alias_map[i].alias = n }
       IN IF hits = {} THEN None
          ELSE Some(alias_map[CHOOSE i \in hits : \A j \in hits : j <= i].pavilion_id)

TransformRow(row, alias_map) ==
  LET e == enrich_time_features(row) IN
  [ timestamp         |-> row.timestamp,
    pavilion_name     |-> row.pavilion_name,
    wait_time_raw     |-> row.wait_time_raw,
    post_time_raw     |-> row.post_time_raw,
    wait_time_minutes |-> parse_wait_time(row.wait_time_raw),
    staleness_min     |-> parse_staleness_min(row.post_time_raw),
    weekday           |-> e.weekday,
    hour_range        |-> e.hour_range,
    data_time_jst     |-> e.data_time_jst,
    pavilion_id       |-> resolve_pavilion_id(row.pavilion_name, alias_map),
    day               |-> DayOf(e.data_time_jst),
    hour              |-> e.hour_range ]

Transform(batch, alias_map) ==
  [i \in 1..Len(batch) |-> TransformRow(batch[i], alias_map)]

IsResolved(r) == r.pavilion_id # None
IsUnresolved(r) == r.pavilion_id = None

\* raw_df[raw_df["pavilion_id"].isna()][[four raw columns]]
UnresolvedRow(r) ==
  [ timestamp |-> r.timestamp, pavilion_name |-> r.pavilion_name,
    wait_time_raw |-> r.wait_time_raw, post_time_raw |-> r.post_time_raw ]

UnresolvedOf(df) ==
  LET u == SelectSeq(df, IsUnresolved) IN [i \in 1..Len(u) |-> UnresolvedRow(u[i])]

\* validate_and_clean that takes the timestamp alone for the key
ValidateByTimestamp(resolved) == drop_duplicates(resolved, <<"timestamp">>)

\* validate_and_clean on the resolved rows
validate_and_clean(resolved) == drop_duplicates(resolved, <<"timestamp", "pavilion_name">>)

CleanedOf(df) == validate_and_clean(SelectSeq(df, IsResolved))

\* ------------------------------------------------------------------------
\* ETL writes (upsert_waits_fact, insert_unresolved)
\* ------------------------------------------------------------------------
\* cols_map with the two parsed columns crossed
FactRowCrossed(r) ==
  [ timestamp         |-> r.timestamp,
    pavilion_id       |-> r.pavilion_id[1],
    pavilion_name_raw |-> r.pavilion_name,
    wait_time_raw     |-> r.wait_time_raw,
    post_time_raw     |-> r.post_time_raw,
    wait_min          |-> r.staleness_min,
    staleness_min     |-> r.wait_time_minutes,
    weekday           |-> r.weekday,
    hour_range        |-> r.hour_range,
    data_time_jst     |-> r.data_time_jst,
    day               |-> r.day,
    hour              |-> r.hour ]

\* cols_map of upsert_waits_fact
FactRow(r) ==
  [ timestamp         |-> r.timestamp,
    pavilion_id       |-> r.pavilion_id[1],
    pavilion_name_raw |-> r.pavilion_name,
    wait_time_raw     |-> r.wait_time_raw,
    post_time_raw     |-> r.post_time_raw,
    wait_min          |-> r.wait_time_minutes,
    staleness_min     |-> r.staleness_min,
    weekday           |-> r.weekday,
    hour_range        |-> r.hour_range,
    data_time_jst     |-> r.data_time_jst,
    day               |-> r.day,
    hour              |-> r.hour ]

\* waits_fact that takes a parsed timestamp only
FactParsedOnly(f) == f.timestamp.kind = "iso" /\ f.pavilion_name_raw.isStr

\* NOT NULL columns of waits_fact; OR IGNORE skips a row that violates them
FactNotNull(f) == f.timestamp.kind # "nan" /\ f.pavilion_name_raw.isStr

\* upsert_waits_fact with a plain INSERT of the staged rows
UpsertPlainInsert(table, cleaned) ==
  table \o SelectSeq([i \in 1..Len(cleaned) |-> FactRow(cleaned[i])], FactNotNull)

\* INSERT OR IGNORE INTO waits_fact SELECT ... FROM _tmp_waits_fact
upsert_waits_fact(table, cleaned) ==
  InsertOrIgnore(table,
                 SelectSeq([i \in 1..Len(cleaned) |-> FactRow(cleaned[i])], FactNotNull),
                 WAITS_FACT_PK)

\* PRAGMA foreign_keys = ON: every inserted fact needs its pavilion_dim row
ForeignKeyOk(before, after, dim) ==
  \A i \in (Len(before) + 1)..Len(after) :
    \E j \in 1..Len(dim) : dim[j].pavilion_id = after[i].pavilion_id

QuarantineRow(u) ==
  [ timestamp |-> u.timestamp, pavilion_name_raw |-> u.pavilion_name,
    wait_time_raw |-> u.wait_time_raw, post_time_raw |-> u.post_time_raw ]

\* dropna(subset=["timestamp", "pavilion_name_raw"])
QuarantineNotNa(q) == q.timestamp.kind # "nan" /\ q.pavilion_name_raw.isStr

\* insert_unresolved that stages the rows and never copies them
InsertUnresolvedNothing(table, unresolved) == table

\* insert_unresolved: rename, dropna, drop_duplicates, INSERT OR IGNORE
insert_unresolved(table, unresolved) ==
  IF Len(unresolved) = 0 THEN table
  ELSE InsertOrIgnore(table,
         drop_duplicates(
           SelectSeq([i \in 1..Len(unresolved) |-> QuarantineRow(unresolved[i])],
                     QuarantineNotNa),
           <<"timestamp", "pavilion_name_raw">>),
         UNRESOLVED_PK)

\* ------------------------------------------------------------------------
\* Master data (load_master_from_geojson, prepare_pavilion_master)
\* ------------------------------------------------------------------------
\* by_name: the first feature of each raw name; a missing name is skipped
RECURSIVE ByName(_, _)
ByName(features, seen) ==
  IF Len(features) = 0 THEN <<>>
  ELSE LET f == features[1] IN
    IF ~f.name.isStr \/ Len(f.name.s) = 0 \/ f.name \in seen
      THEN ByName(Tail(features), seen)
      ELSE <<f>> \o ByName(Tail(features), seen \cup {f.name})

GeojsonRowsDim(feats) ==
  [i \in 1..Len(feats) |->
     [ pavilion_id |-> make_pavilion_id(feats[i].name),
       name_canonical |-> feats[i].name.s,
       area |-> feats[i].area ]]

GeojsonRowsAlias(feats) ==
  [i \in 1..Len(feats) |->
     [ alias |-> normalize_name(feats[i].name).s,
       pavilion_id |-> make_pavilion_id(feats[i].name) ]]

GeojsonRowsGeom(feats) ==
  [i \in 1..Len(feats) |->
     [ pavilion_id |-> make_pavilion_id(feats[i].name),
       geojson |-> feats[i].geometry ]]

\* pavilion_dim rebuilt from the rows of this load only
LoadDimRebuild(dim, rows) == InsertOrReplace(<<>>, rows, DIM_PK)

\* INSERT OR REPLACE INTO pavilion_dim
LoadDim(dim, rows) == InsertOrReplace(dim, rows, DIM_PK)

\* the alias of a loaded feature re-pointed to the identifier of this load
LoadAliasReplace(alias, rows) == InsertOrReplace(alias, rows, ALIAS_PK)

\* INSERT OR IGNORE INTO pavilion_alias
LoadAlias(alias, rows) == InsertOrIgnore(alias, rows, ALIAS_PK)

\* prepare_pavilion_master.normalize_name: a non-string becomes ""
prepare_normalize_name(x) ==
  IF ~x.isStr THEN <<>> ELSE RemoveSpace(strip(nfkc(x.s)))

\* norm_to_repr: normalized name -> first raw spelling, in first-seen order
RECURSIVE NormToRepr(_, _)
NormToRepr(names, seen) ==
  IF Len(names) = 0 THEN <<>>
  ELSE LET norm == prepare_normalize_name(names[1]) IN
    IF ~names[1].isStr \/ Len(norm) = 0 \/ norm \in seen
      THEN NormToRepr(Tail(names), seen)
      ELSE <<[norm |-> norm, rep |-> names[1].s]>> \o NormToRepr(Tail(names), seen \cup {norm})

PrepareRowsDim(n2r) ==
  [i \in 1..Len(n2r) |->
     [ pavilion_id |-> pav_id_from_norm(n2r[i].norm),
       name_canonical |-> n2r[i].rep,
       area |-> None ]]

PrepareRowsAlias(n2r) ==
  [i \in 1..Len(n2r) |->
     [ alias |-> n2r[i].norm, pavilion_id |-> pav_id_from_norm(n2r[i].norm) ]]

\* ------------------------------------------------------------------------
\* migrate_phase0 backfill
\* ------------------------------------------------------------------------
EmptyText == <<>>

\* UPDATE waits_fact SET day = substr(coalesce(data_time_jst,''),1,10)
\*   WHERE day IS NULL OR day = '';
\* UPDATE waits_fact SET hour = hour_range WHERE hour IS NULL OR hour = '';
BackfillRow(f) ==
  LET day1 == IF f.day = None \/ f.day = Some(EmptyText)
                THEN (IF f.data_time_jst = None THEN Some(EmptyText)
                      ELSE Some(DayText(f.data_time_jst[1].d)))
                ELSE f.day
      hour1 == IF f.hour = None \/ f.hour = Some(EmptyText) THEN f.hour_range ELSE f.hour
  IN [f EXCEPT !.day = day1, !.hour = hour1]

Backfill(table) == [i \in 1..Len(table) |-> BackfillRow(table[i])]

\* ------------------------------------------------------------------------
\* Read side, shared helpers (dash_app/data_access.py, scripts/export_map_json.py)
\* ------------------------------------------------------------------------
\* the order of two 'YYYY-MM-DD' texts (or of '' and such a text) as SQLite
\* compares TEXT: a <= b
TextLE(a, b) ==
  IF Len(a) = 0 THEN TRUE
  ELSE IF Len(b) = 0 THEN FALSE
  ELSE \/ a[1] < b[1]
       \/ a[1] = b[1] /\ a[2] < b[2]
       \/ a[1] = b[1] /\ a[2] = b[2] /\ a[3] <= b[3]

\* the order of two timestamp texts: an ISO text of the model starts with
\* '2025-06-', any other text of the model with a letter
TimestampLE(a, b) ==
  IF a.kind = "iso" /\ b.kind = "iso"
    THEN \/ a.d < b.d
         \/ a.d = b.d /\ a.h < b.h
         \/ a.d = b.d /\ a.h = b.h /\ a.mi <= b.mi
    ELSE b.kind # "iso"

\* LEFT JOIN pavilion_dim d ON d.pavilion_id = w.pavilion_id;
\* COALESCE(d.name_canonical, w.pavilion_name_raw)
PavilionNameOf(w, dim) ==
  LET hits == { i \in 1..Len(dim) : dim[i].pavilion_id = w.pavilion_id } IN
  IF hits = {} THEN w.pavilion_name_raw.s
  ELSE dim[CHOOSE i \in hits : TRUE].name_canonical

\* LEFT JOIN pavilion_geometry g ON g.pavilion_id = w.pavilion_id; g.geojson
GeojsonOf(pid, geom) ==
  LET hits == { i \in 1..Len(geom) : geom[i].pavilion_id = pid } IN
  IF hits = {} THEN None ELSE Some(geom[CHOOSE i \in hits : TRUE].geojson)

\* the distinct values of a sequence, in the order of their first occurrence
RECURSIVE Distinct(_, _)
Distinct(s, seen) ==
  IF Len(s) = 0 THEN <<>>
  ELSE IF s[1] \in seen THEN Distinct(Tail(s), seen)
  ELSE <<s[1]>> \o Distinct(Tail(s), seen \cup {s[1]})

RECURSIVE SumWait(_)
SumWait(rows) ==
  IF Len(rows) = 0 THEN 0 ELSE rows[1].wait_min[1] + SumWait(Tail(rows))

\* AVG(w.wait_min) as the fraction sum / count
AvgWait(rows) == [num |-> SumWait(rows), den |-> Len(rows)]

\* a < b for two averages
AvgLess(a, b) == a.num * b.den < b.num * a.den

\* ORDER BY avg_wait DESC: rows of equal average come in an order SQL leaves
\* open; tie says whether a row goes before or after its equals
RECURSIVE InsertDesc(_, _, _)
InsertDesc(sorted, g, tie) ==
  IF Len(sorted) = 0 THEN <<g>>
  ELSE IF \/ AvgLess(sorted[1].avg_wait, g.avg_wait)
          \/ tie = "before" /\ ~AvgLess(g.avg_wait, sorted[1].avg_wait)
    THEN <<g>> \o sorted
    ELSE <<sorted[1]>> \o InsertDesc(Tail(sorted), g, tie)

RECURSIVE OrderByAvgDesc(_, _)
OrderByAvgDesc(groups, tie) ==
  IF Len(groups) = 0 THEN <<>>
  ELSE InsertDesc(OrderByAvgDesc(SubSeq(groups, 1, Len(groups) - 1), tie),
                  groups[Len(groups)], tie)

\* LIMIT n
Limit(rows, n) == SubSeq(rows, 1, IF Len(rows) < n THEN Len(rows) ELSE n)

\* ------------------------------------------------------------------------
\* get_ranking
\* ------------------------------------------------------------------------
\* WHERE w.wait_min IS NOT NULL [AND w.day >= cutoff]
RankingWhere(w, cutoff) ==
  /\ w.wait_min # None
  /\ cutoff # None => (w.day # None /\ TextLE(cutoff[1], w.day[1]))

\* get_ranking with every fact kept, the facts of null wait_min counted in n
GetRankingCountingNulls(wf, dim, cutoff, top_n, tie) ==
  LET InWindow(w) == cutoff # None => (w.day # None /\ TextLE(cutoff[1], w.day[1]))
      NonNull(w) == w.wait_min # None
      rows == SelectSeq(wf, InWindow)
      names == Distinct([i \in 1..Len(rows) |-> PavilionNameOf(rows[i], dim)], {})
      groups ==
        [k \in 1..Len(names) |->
           LET Mine(w) == PavilionNameOf(w, dim) = names[k] IN
           [ pavilion_name |-> names[k],
             avg_wait |-> [num |-> SumWait(SelectSeq(SelectSeq(rows, Mine), NonNull)),
                           den |-> Len(SelectSeq(rows, Mine))],
             n |-> Len(SelectSeq(rows, Mine)) ]]
  IN Limit(OrderByAvgDesc(groups, tie), top_n)

\* get_ranking: GROUP BY pavilion_name ORDER BY avg_wait DESC LIMIT top_n
get_ranking(wf, dim, cutoff, top_n, tie) ==
  LET Where(w) == RankingWhere(w, cutoff)
      rows == SelectSeq(wf, Where)
      names == Distinct([i \in 1..Len(rows) |-> PavilionNameOf(rows[i], dim)], {})
      groups ==
        [k \in 1..Len(names) |->
           LET Mine(w) == PavilionNameOf(w, dim) = names[k] IN
           [ pavilion_name |-> names[k],
             avg_wait |-> AvgWait(SelectSeq(rows, Mine)),
             n |-> Len(SelectSeq(rows, Mine)) ]]
  IN Limit(OrderByAvgDesc(groups, tie), top_n)

\* ------------------------------------------------------------------------
\* get_geo_rows
\* ------------------------------------------------------------------------
\* "if not day": None and '' are both missing
TextGiven(x) == x # None /\ Len(x[1]) > 0
LabelGiven(x) == x # None /\ x[1] # ""

\* json.loads(gj)["geometry"]["coordinates"] unpacked as lon, lat: None
\* when that raises (no geometry, or a geometry that is no point)
Points == {"pt1", "pt2", "pt3", "pt4", "pt5"}
Coordinates(gj) == IF gj \in Points THEN Some(gj) ELSE None

\* MAX(w.timestamp) of a non-empty group
MaxTimestamp(rows) ==
  rows[CHOOSE i \in 1..Len(rows) :
         \A j \in 1..Len(rows) : TimestampLE(rows[j].timestamp, rows[i].timestamp)].timestamp

\* the selector of a mode is complete
GeoRequestComplete(mode, day, hour, weekday) ==
  CASE mode = "date"      -> TextGiven(day)
    [] mode = "date_hour" -> TextGiven(day) /\ TextGiven(hour)
    [] mode = "weekday"   -> LabelGiven(weekday)
    [] mode = "hour"      -> TextGiven(hour)
    [] OTHER              -> FALSE

\* the WHERE clause of a complete request
GeoWhere(w, mode, day, hour, weekday) ==
  /\ w.wait_min # None
  /\ CASE mode = "date"      -> day # None /\ w.day = day
       [] mode = "date_hour" -> day # None /\ w.day = day /\ hour # None /\ w.hour = hour
       [] mode = "weekday"   -> weekday # None /\ w.weekday = weekday
       [] mode = "hour"      -> hour # None /\ w.hour = hour
       [] OTHER              -> FALSE

\* the SELECT of get_geo_rows and the loop over its rows
GeoSelect(wf, dim, geom, mode, day, hour, weekday) ==
  LET Where(w) == GeoWhere(w, mode, day, hour, weekday)
      rows == SelectSeq(wf, Where)
      pids == Distinct([i \in 1..Len(rows) |-> rows[i].pavilion_id], {})
      groups ==
        [k \in 1..Len(pids) |->
           LET Mine(w) == w.pavilion_id = pids[k]
               mine == SelectSeq(rows, Mine)
               last == MaxTimestamp(mine)
               IsLast(w) == w.timestamp = last
           IN [ pavilion_id |-> pids[k],
                pavilion_name |-> PavilionNameOf(SelectSeq(mine, IsLast)[1], dim),
                gj |-> GeojsonOf(pids[k], geom),
                avg_wait |-> AvgWait(mine),
                last_ts |-> last ]]
      Having(g) == g.gj # None
      Located(g) == Coordinates(g.gj[1]) # None
      kept == SelectSeq(SelectSeq(groups, Having), Located)
  IN [i \in 1..Len(kept) |->
        [ pavilion_id |-> kept[i].pavilion_id,
          pavilion_name |-> kept[i].pavilion_name,
          lonlat |-> Coordinates(kept[i].gj[1])[1],
          avg_wait |-> kept[i].avg_wait,
          last_ts |-> kept[i].last_ts ]]

\* get_geo_rows that sends the query whatever the request holds
GetGeoRowsAlwaysQuerying(wf, dim, geom, mode, day, hour, weekday) ==
  [ queried |-> TRUE, rows |-> GeoSelect(wf, dim, geom, mode, day, hour, weekday) ]

\* get_geo_rows: [] before any query when the selector is incomplete
get_geo_rows(wf, dim, geom, mode, day, hour, weekday) ==
  IF ~GeoRequestComplete(mode, day, hour, weekday)
    THEN [ queried |-> FALSE, rows |-> <<>> ]
    ELSE [ queried |-> TRUE, rows |-> GeoSelect(wf, dim, geom, mode, day, hour, weekday) ]

\* ------------------------------------------------------------------------
\* export_map_json.py
\* ------------------------------------------------------------------------
WEEKDAYS_JA == { weekday_map[i] : i \in 1..7 }

\* Filters; a list that is None or empty is <<>>
Filters(day, date_from, date_to, weekday, hour, min_samples) ==
  [ day |-> day, date_from |-> date_from, date_to |-> date_to,
    weekday |-> weekday, hour |-> hour, min_samples |-> min_samples ]

InList(x, list) == \E i \in 1..Len(list) : x = Some(list[i])

\* build_where_clause
build_where_clause(w, f) ==
  LET IsLabel(x) == x \in WEEKDAYS_JA
      wds == SelectSeq(f.weekday, IsLabel)
  IN /\ IF Len(f.day) > 0 THEN InList(w.day, f.day)
        ELSE IF TextGiven(f.date_from) /\ TextGiven(f.date_to)
          THEN /\ w.day # None
               /\ TextLE(f.date_from[1], w.day[1]) /\ TextLE(w.day[1], f.date_to[1])
          ELSE TRUE
     /\ Len(wds) > 0 => InList(w.weekday, wds)
     /\ Len(f.hour) > 0 => InList(w.hour, f.hour)
     /\ w.wait_min # None

\* ensure_feature(geojson_str), with the properties the export sets: the
\* stored text is a Feature around the geometry
ensure_feature(geojson, properties) == [geometry |-> geojson, properties |-> properties]

\* round(v) of the fraction num / den: half to even
round(num, den) ==
  LET q == num \div den
      r == num % den
  IN IF 2 * r < den THEN q
     ELSE IF 2 * r > den THEN q + 1
     ELSE IF q % 2 = 0 THEN q ELSE q + 1

RECURSIVE InsertAsc(_, _)
InsertAsc(sorted, v) ==
  IF Len(sorted) = 0 THEN <<v>>
  ELSE IF v < sorted[1] THEN <<v>> \o sorted
  ELSE <<sorted[1]>> \o InsertAsc(Tail(sorted), v)

RECURSIVE sorted(_)
sorted(vals) ==
  IF Len(vals) = 0 THEN <<>>
  ELSE InsertAsc(sorted(SubSeq(vals, 1, Len(vals) - 1)), vals[Len(vals)])

RECURSIVE sum(_)
sum(vals) == IF Len(vals) = 0 THEN 0 ELSE vals[1] + sum(Tail(vals))

\* p_percentile(values, 90): k = (n - 1) * 0.9, f = int(k), c = min(f + 1, n - 1),
\* s[f] * (c - k) + s[c] * (k - f) in tenths (indices from 0)
p_percentile90(vals) ==
  LET s == sorted(vals)
      n == Len(s)
      k10 == (n - 1) * 9
      f == k10 \div 10
      c == IF f + 1 < n - 1 THEN f + 1 ELSE n - 1
  IN IF f = c THEN [num |-> s[f + 1], den |-> 1]
     ELSE [num |-> s[f + 1] * (10 * c - k10) + s[c + 1] * (k10 - 10 * f), den |-> 10]

\* the statistic of a non-empty list of waits as a fraction
Statistic(stat, vals) ==
  LET s == sorted(vals)
      n == Len(vals)
      mid == n \div 2
  IN CASE stat = "max" -> [num |-> s[n], den |-> 1]
       [] stat = "min" -> [num |-> s[1], den |-> 1]
       [] stat = "median" ->
            IF n % 2 = 1 THEN [num |-> s[mid + 1], den |-> 1]
            ELSE [num |-> s[mid] + s[mid + 1], den |-> 2]
       [] stat = "p90" -> p_percentile90(vals)
       [] OTHER -> [num |-> sum(vals), den |-> n]

\* export_aggregate: fetch_for_aggregate, the waits by pavilion, one feature
\* per pavilion of at least min_samples waits; ensure_feature raises TypeError
\* on a pavilion without pavilion_geometry row and nothing is written
export_aggregate(wf, dim, geom, stat, f) ==
  LET Where(w) == build_where_clause(w, f)
      rows == SelectSeq(wf, Where)
      pids == Distinct([i \in 1..Len(rows) |-> rows[i].pavilion_id], {})
      by_pid ==
        [k \in 1..Len(pids) |->
           LET Mine(w) == w.pavilion_id = pids[k]
               mine == SelectSeq(rows, Mine)
           IN [ pid |-> pids[k],
                vals |-> [i \in 1..Len(mine) |-> mine[i].wait_min[1]],
                name |-> PavilionNameOf(mine[1], dim),
                geojson |-> GeojsonOf(pids[k], geom) ]]
      Enough(g) == Len(g.vals) >= f.min_samples
      kept == SelectSeq(by_pid, Enough)
      Raises(g) == g.geojson = None
  IN IF Len(SelectSeq(kept, Raises)) > 0
       THEN [ ok |-> FALSE, feats |-> <<>> ]
       ELSE [ ok |-> TRUE,
              feats |->
                [i \in 1..Len(kept) |->
                   ensure_feature(kept[i].geojson[1],
                     [ pavilion_id |-> kept[i].pid,
                       pavilion_name |-> kept[i].name,
                       value |-> round(Statistic(stat, kept[i].vals).num,
                                       Statistic(stat, kept[i].vals).den),
                       stat |-> stat,
                       n |-> Len(kept[i].vals) ])] ]

\* fetch_latest: the facts that are the newest of their pavilion, have a
\* wait_min and pass the freshness ceiling
fetch_latest(wf, fresh_within) ==
  LET Latest(w) ==
        /\ \A j \in 1..Len(wf) :
             wf[j].pavilion_id = w.pavilion_id => TimestampLE(wf[j].timestamp, w.timestamp)
        /\ w.wait_min # None
        /\ fresh_within # None =>
             (w.staleness_min = None \/ w.staleness_min[1] <= fresh_within[1])
  IN SelectSeq(wf, Latest)

\* export_latest: one feature per fetched row; ensure_feature raises
\* TypeError on a row without geojson and nothing is written
export_latest(wf, dim, geom, fresh_within) ==
  LET rows == fetch_latest(wf, fresh_within)
      Raises(w) == GeojsonOf(w.pavilion_id, geom) = None
  IN IF Len(SelectSeq(rows, Raises)) > 0
       THEN [ ok |-> FALSE, feats |-> <<>> ]
       ELSE [ ok |-> TRUE,
              feats |->
                [i \in 1..Len(rows) |->
                   ensure_feature(GeojsonOf(rows[i].pavilion_id, geom)[1],
                     [ pavilion_id |-> rows[i].pavilion_id,
                       pavilion_name |-> PavilionNameOf(rows[i], dim),
                       wait_min |-> rows[i].wait_min,
                       staleness_min |-> rows[i].staleness_min,
                       data_time_jst |-> rows[i].data_time_jst ])] ]

\* ------------------------------------------------------------------------
\* State
\* ------------------------------------------------------------------------
VARIABLES
  schema,            \* which tables exist, and in which shape
  pavilion_dim,      \* committed rows of pavilion_dim
  pavilion_alias,    \* committed rows of pavilion_alias
  pavilion_geometry, \* committed rows of pavilion_geometry
  waits_fact,        \* committed rows of waits_fact
  unresolved_names,  \* committed rows of unresolved_names
  etl,               \* the ETL process: position, batch, open transaction
  n_runs,            \* ETL runs started
  n_loads,           \* master loads run
  load,              \* the latest load_master_from_geojson: input, tables before
  dash,              \* what the dashboard queries have read so far
  p_raw,             \* text handed to a parser
  p_res,             \* what the parser returned
  p_called           \* the parser has returned

dbvars == <<schema, pavilion_dim, pavilion_alias, pavilion_geometry,
            waits_fact, unresolved_names, etl, n_runs, n_loads, load, dash>>
pvars == <<p_raw, p_res, p_called>>
vars == <<schema, pavilion_dim, pavilion_alias, pavilion_geometry,
          waits_fact, unresolved_names, etl, n_runs, n_loads, load, dash,
          p_raw, p_res, p_called>>

\* a database file with no table yet
NoSchema == [dim |-> "absent", alias |-> FALSE, geom |-> FALSE, wf |-> "absent", un |-> FALSE]

EtlIdle ==
  [ pc |-> "idle", err |-> "", batch |-> <<>>, alias0 |-> <<>>, alias_present |-> FALSE,
    cols_ok |-> TRUE, rerun |-> FALSE, faulted |-> FALSE,
    cleaned |-> <<>>, unresolved |-> <<>>,
    wf0 |-> <<>>, un0 |-> <<>>, tx_wf |-> <<>>, tx_un |-> <<>> ]

\* no load_master_from_geojson has run yet
NoLoad ==
  [n |-> 0, fc |-> <<>>, rerun |-> FALSE, dim0 |-> <<>>, alias0 |-> <<>>, geom0 |-> <<>>]

\* no dashboard query has run yet
NoDash == [op |-> "none", req |-> <<>>, res |-> <<>>, seen |-> <<>>]

InitDb ==
  /\ schema = NoSchema
  /\ pavilion_dim = <<>>
  /\ pavilion_alias = <<>>
  /\ pavilion_geometry = <<>>
  /\ waits_fact = <<>>
  /\ unresolved_names = <<>>
  /\ etl = EtlIdle
  /\ n_runs = 0
  /\ n_loads = 0
  /\ load = NoLoad
  /\ dash = NoDash

InitText ==
  /\ p_raw = Str(<<>>)
  /\ p_res = None
  /\ p_called = FALSE

Init == InitDb /\ InitText

\* ------------------------------------------------------------------------
\* Inputs
\* ------------------------------------------------------------------------
IRELAND == Str(<<"I", "r">>)
IRELAND_SPACED == Str(<<"FULLWIDTH_I", "IDEOGRAPHIC_SPACE", "r">>)
UNKNOWN == Str(<<"U", "n">>)
GAS == Str(<<"G", "a">>)
GAS_SPACED == Str(<<"G", " ", "a">>)

\* 2025-06-01T11:05:00+09:00
T1 == TsIso(0, 11, 5, 9)

\* 2025-06-02T23:40:00+09:00
T2 == TsIso(1, 23, 40, 9)

W_1H30 == Str(<<"1", "JIKAN", "3", "0", "FUN">>)
W_20 == Str(<<"2", "0", "FUN">>)
W_NOINFO == Str(<<"JOUHOU_NASHI">>)
P_5 == Str(<<"5", "FUN", "MAE">>)
P_60PLUS == Str(<<"6", "0", "FUN", "IJOU", "MAE">>)

RawRow(ts, name, w, p) ==
  [timestamp |-> ts, pavilion_name |-> name, wait_time_raw |-> w, post_time_raw |-> p]

R_EXAMPLE == RawRow(T1, IRELAND, W_1H30, P_5)
R_RESPELLED == RawRow(T1, IRELAND_SPACED, W_20, P_60PLUS)
R_BAD_TIME == RawRow(TsBad, IRELAND, W_20, NonStr)
R_UNKNOWN == RawRow(T1, UNKNOWN, W_NOINFO, P_5)
R_UNKNOWN_AGAIN == RawRow(T1, UNKNOWN, W_20, P_5)
R_NO_TIME == RawRow(TsNaN, UNKNOWN, W_20, P_5)
R_NO_NAME == RawRow(T1, NonStr, W_20, P_5)
R_EXAMPLE_AGAIN == RawRow(T1, IRELAND, W_20, P_5)
R_MONDAY == RawRow(T2, IRELAND, W_NOINFO, P_60PLUS)

\* 2025-06-01T20:05:00+00:00, which is 2025-06-02T05:05:00+09:00
T_UTC == TsIso(0, 20, 5, 0)
R_UTC == RawRow(T_UTC, IRELAND, W_20, P_5)

\* the raw CSV files of the model
Batches ==
  { <<>>,
    << R_EXAMPLE >>,
    << R_UTC >>,
    << R_EXAMPLE, R_RESPELLED >>,
    << R_BAD_TIME, R_EXAMPLE >>,
    << R_EXAMPLE, R_UNKNOWN >>,
    << R_UNKNOWN, R_UNKNOWN_AGAIN >>,
    << R_UNKNOWN_AGAIN, R_NO_TIME >>,
    << R_EXAMPLE, R_EXAMPLE_AGAIN >>,
    << R_NO_NAME, R_EXAMPLE >>,
    << R_MONDAY, R_EXAMPLE >> }

Feature(name, area, geometry) == [name |-> name, area |-> Some(area), geometry |-> geometry]

FC_IRELAND == << Feature(IRELAND, "west", "pt1"), Feature(IRELAND, "east", "pt2") >>
FC_GAS ==
  << Feature(GAS, "north", "pt3"), Feature(NonStr, "south", "pt4"),
     Feature(GAS_SPACED, "east", "pt5") >>

FeatureCollections == { FC_IRELAND, FC_GAS }

\* the pavilion_name column of the raw CSV read by prepare_pavilion_master
NameColumns ==
  { << IRELAND_SPACED, UNKNOWN, NonStr, IRELAND, UNKNOWN >> }

\* ------------------------------------------------------------------------
\* A populated store for the read side: the master data of both feature
\* collections and of a raw CSV, the facts of one ETL run
\* ------------------------------------------------------------------------
Digit(i) == <<"0", "1", "2", "3", "4", "5", "6", "7", "8", "9">>[i + 1]

RECURSIVE Decimal(_)
Decimal(i) == IF i < 10 THEN <<Digit(i)>> ELSE Decimal(i \div 10) \o <<Digit(i % 10)>>

\* pavilions known from the raw CSV only: no geometry
BulkName(i) == Str(<<"B">> \o Decimal(i))
BulkWait(i) == Str(Decimal(i) \o <<"FUN">>)

\* Mondays 2025-06-02 10:05, 11:05 and 2025-06-09 10:05, Sunday 2025-06-08 11:05
M1 == TsIso(1, 10, 5, 9)
M2 == TsIso(1, 11, 5, 9)
M3 == TsIso(8, 10, 5, 9)
S1 == TsIso(7, 11, 5, 9)

\* the reports of one pavilion: <<timestamp, wait text, post text>>
Profiles ==
  { <<>>,
    << <<M1, W_20, P_5>>, <<M2, W_1H30, P_60PLUS>>, <<M3, W_20, NonStr>> >>,
    << <<M1, W_20, P_5>>, <<M2, W_NOINFO, P_5>>, <<M3, W_1H30, P_60PLUS>> >>,
    << <<M1, W_1H30, P_5>>, <<M2, W_20, P_5>>, <<S1, W_20, P_5>> >>,
    << <<M1, W_NOINFO, P_5>>, <<S1, W_NOINFO, NonStr>> >>,
    << <<M1, W_1H30, P_5>>, <<M3, W_NOINFO, P_5>> >> }

ReportsOf(name, profile) ==
  [i \in 1..Len(profile) |-> RawRow(profile[i][1], name, profile[i][2], profile[i][3])]

BulkReports(k) == [i \in 1..k |-> RawRow(M1, BulkName(i), BulkWait(i), P_5)]

DashBatches ==
  { ReportsOf(IRELAND, p1) \o ReportsOf(GAS, p2) \o ReportsOf(UNKNOWN, p3) \o BulkReports(k) :
      p1 \in Profiles, p2 \in Profiles, p3 \in Profiles, k \in {0, MaxBulk} }

\* the pavilion_name column of the raw CSV with all the names of a batch
DashNames == <<UNKNOWN>> \o [i \in 1..MaxBulk |-> BulkName(i)]

\* init_db, migrate_phase0, load_master_from_geojson on both collections,
\* prepare_pavilion_master
DashDim ==
  InsertOrIgnore(
    LoadDim(LoadDim(<<>>, GeojsonRowsDim(ByName(FC_IRELAND, {}))),
            GeojsonRowsDim(ByName(FC_GAS, {}))),
    PrepareRowsDim(NormToRepr(DashNames, {})), DIM_PK)

DashAlias ==
  InsertOrIgnore(
    LoadAlias(LoadAlias(<<>>, GeojsonRowsAlias(ByName(FC_IRELAND, {}))),
              GeojsonRowsAlias(ByName(FC_GAS, {}))),
    PrepareRowsAlias(NormToRepr(DashNames, {})), ALIAS_PK)

DashGeometry ==
  InsertOrReplace(
    InsertOrReplace(<<>>, GeojsonRowsGeom(ByName(FC_IRELAND, {})), GEOMETRY_PK),
    GeojsonRowsGeom(ByName(FC_GAS, {})), GEOMETRY_PK)

\* waits_fact after one ETL run on the batch
DashFacts(batch) == upsert_waits_fact(<<>>, CleanedOf(Transform(batch, DashAlias)))

InitDash ==
  /\ schema = [dim |-> "full", alias |-> TRUE, geom |-> TRUE, wf |-> "v1", un |-> TRUE]
  /\ pavilion_dim = DashDim
  /\ pavilion_alias = DashAlias
  /\ pavilion_geometry = DashGeometry
  /\ waits_fact \in { DashFacts(batch) : batch \in DashBatches }
  /\ unresolved_names = <<>>
  /\ etl = EtlIdle
  /\ n_runs = 0
  /\ n_loads = 0
  /\ load = NoLoad
  /\ dash = NoDash
  /\ InitText

\* the state of the store that a read does not touch
storevars == <<schema, pavilion_dim, pavilion_alias, pavilion_geometry,
               waits_fact, unresolved_names, etl, n_runs, n_loads, load, pvars>>

\* the day that _cutoff_day returns: None for days=None
Cutoffs == { None, Some(DayText(7)) }

\* callbacks._ranking: get_ranking(con, days, top_n=20)
QueryRanking ==
  /\ dash.op = "none"
  /\ \E cutoff \in Cutoffs, top_n \in {2, TOP_N}, tie \in {"before", "after"} :
       dash' = [dash EXCEPT !.op = "get_ranking",
                            !.req = [cutoff |-> cutoff, top_n |-> top_n],
                            !.res = get_ranking(waits_fact, pavilion_dim, cutoff, top_n, tie)]
  /\ UNCHANGED storevars

GeoRequest(mode, day, hour, weekday) ==
  [mode |-> mode, day |-> day, hour |-> hour, weekday |-> weekday]

\* the requests of the map layer: each mode with and without its selector
GeoRequests ==
  { GeoRequest("date", None, None, None),
    GeoRequest("date", Some(EmptyText), None, None),
    GeoRequest("date", Some(DayText(1)), None, None),
    GeoRequest("date_hour", None, None, None),
    GeoRequest("date_hour", Some(DayText(1)), None, None),
    GeoRequest("date_hour", None, Some(HourText(10)), None),
    GeoRequest("date_hour", Some(DayText(1)), Some(HourText(10)), None),
    GeoRequest("weekday", None, None, None),
    GeoRequest("weekday", Some(DayText(1)), Some(HourText(10)), Some("")),
    GeoRequest("weekday", None, None, Some("GETSU")),
    GeoRequest("hour", Some(DayText(1)), None, Some("GETSU")),
    GeoRequest("hour", None, Some(HourText(10)), None),
    GeoRequest("latest", Some(DayText(1)), Some(HourText(10)), Some("GETSU")),
    GeoRequest("week", Some(DayText(1)), Some(HourText(10)), Some("GETSU")) }

\* get_geo_rows(con, mode, day, hour, weekday)
QueryGeoRows ==
  /\ dash.op = "none"
  /\ \E r \in GeoRequests :
       dash' = [dash EXCEPT !.op = "get_geo_rows",
                            !.req = r,
                            !.res = get_geo_rows(waits_fact, pavilion_dim, pavilion_geometry,
                                                 r.mode, r.day, r.hour, r.weekday)]
  /\ UNCHANGED storevars

\* --mode aggregate: the filters of the command line
AggregateFilters ==
  { Filters(<<>>, None, None, <<"GETSU">>, <<>>, MIN_SAMPLES),
    Filters(<<>>, None, None, <<>>, <<>>, MIN_SAMPLES),
    Filters(<<DayText(1)>>, None, None, <<"GETSU", "NICHI">>, <<HourText(10)>>, 1),
    Filters(<<>>, Some(DayText(1)), Some(DayText(7)), <<>>, <<>>, 2),
    Filters(<<>>, None, None, <<"Monday">>, <<>>, 1),
    Filters(<<>>, Some(DayText(7)), None, <<>>, <<>>, 1) }

Stats == {"avg", "max", "min", "median", "p90"}

\* export_map_json.py --mode aggregate
ExportAggregate ==
  /\ dash.op = "none"
  /\ \E f \in AggregateFilters, stat \in Stats :
       dash' = [dash EXCEPT !.op = "export_aggregate",
                            !.req = [stat |-> stat, filters |-> f],
                            !.res = export_aggregate(waits_fact, pavilion_dim,
                                                     pavilion_geometry, stat, f)]
  /\ UNCHANGED storevars

\* export_map_json.py --mode latest [--fresh-within N]
ExportLatest ==
  /\ dash.op = "none"
  /\ \E fresh_within \in {None, Some(5), Some(60)} :
       dash' = [dash EXCEPT !.op = "export_latest",
                            !.req = [fresh_within |-> fresh_within],
                            !.res = export_latest(waits_fact, pavilion_dim,
                                                  pavilion_geometry, fresh_within)]
  /\ UNCHANGED storevars

\* ------------------------------------------------------------------------
\* Schema scripts
\* ------------------------------------------------------------------------
\* no ETL process is running
Quiet == etl.pc = "idle"

\* init_db.py: CREATE TABLE IF NOT EXISTS for the five tables; its waits_fact
\* has no day / hour column
RunInitDb ==
  /\ Quiet
  /\ schema' = [ dim   |-> IF schema.dim = "absent" THEN "full" ELSE schema.dim,
                 alias |-> TRUE,
                 geom  |-> TRUE,
                 wf    |-> IF schema.wf = "absent" THEN "v0" ELSE schema.wf,
                 un    |-> TRUE ]
  /\ schema' # schema
  /\ etl' = EtlIdle
  /\ UNCHANGED <<pavilion_dim, pavilion_alias, pavilion_geometry, waits_fact,
                 unresolved_names, n_runs, n_loads, load, dash, pvars>>

\* migrate_phase0.py: add day / hour when absent, backfill, commit
RunMigratePhase0 ==
  /\ Quiet
  /\ schema.wf # "absent"
  /\ schema' = [schema EXCEPT !.wf = "v1"]
  /\ waits_fact' = Backfill(waits_fact)
  /\ (schema' # schema \/ waits_fact' # waits_fact)
  /\ etl' = EtlIdle
  /\ UNCHANGED <<pavilion_dim, pavilion_alias, pavilion_geometry,
                 unresolved_names, n_runs, n_loads, load, dash, pvars>>

\* ------------------------------------------------------------------------
\* Master loads
\* ------------------------------------------------------------------------
\* load_master_from_geojson.main; it needs the tables of init_db.py
RunLoadMasterFromGeojson ==
  /\ Quiet
  /\ n_loads < MaxMasterLoads
  /\ schema.dim = "full" /\ schema.alias /\ schema.geom
  /\ \E fc \in FeatureCollections :
       LET feats == ByName(fc, {}) IN
         /\ pavilion_dim' = LoadDim(pavilion_dim, GeojsonRowsDim(feats))
         /\ pavilion_alias' = LoadAlias(pavilion_alias, GeojsonRowsAlias(feats))
         /\ pavilion_geometry' =
              InsertOrReplace(pavilion_geometry, GeojsonRowsGeom(feats), GEOMETRY_PK)
         /\ load' = [n |-> load.n + 1, fc |-> fc, rerun |-> (load.fc = fc),
                     dim0 |-> pavilion_dim, alias0 |-> pavilion_alias,
                     geom0 |-> pavilion_geometry]
  /\ n_loads' = n_loads + 1
  /\ etl' = EtlIdle
  /\ UNCHANGED <<schema, waits_fact, unresolved_names, n_runs, dash, pvars>>

\* prepare_pavilion_master.main; it creates the master tables it misses,
\* pavilion_dim with three columns only
RunPreparePavilionMaster ==
  /\ Quiet
  /\ n_loads < MaxMasterLoads
  /\ \E names \in NameColumns :
       LET n2r == NormToRepr(names, {}) IN
         /\ pavilion_dim' = InsertOrIgnore(pavilion_dim, PrepareRowsDim(n2r), DIM_PK)
         /\ pavilion_alias' = InsertOrIgnore(pavilion_alias, PrepareRowsAlias(n2r), ALIAS_PK)
  /\ schema' = [schema EXCEPT !.dim = IF @ = "absent" THEN "narrow" ELSE @,
                              !.alias = TRUE, !.geom = TRUE]
  /\ n_loads' = n_loads + 1
  /\ etl' = EtlIdle
  /\ UNCHANGED <<pavilion_geometry, waits_fact, unresolved_names, n_runs, load, dash, pvars>>

\* ------------------------------------------------------------------------
\* ETL run (etl.main)
\* ------------------------------------------------------------------------
\* load_raw_data raises ValueError: a required column is missing
EtlMissingColumns ==
  /\ Quiet
  /\ n_runs < MaxEtlRuns
  /\ n_runs' = n_runs + 1
  /\ etl' = [EtlIdle EXCEPT !.pc = "failed", !.err = "ValueError", !.cols_ok = FALSE,
                            !.alias_present = schema.alias,
                            !.wf0 = waits_fact, !.un0 = unresolved_names]
  /\ UNCHANGED <<schema, pavilion_dim, pavilion_alias, pavilion_geometry,
                 waits_fact, unresolved_names, n_loads, load, dash, pvars>>

\* a missing pavilion_alias read as an empty dictionary
LoadAliasMapOrEmpty ==
  [ok |-> TRUE, rows |-> pavilion_alias]

\* load_alias_map_from_db: the SELECT fails when pavilion_alias is absent
load_alias_map_from_db ==
  [ok |-> schema.alias, rows |-> pavilion_alias]

\* load_alias_map_from_db raises RuntimeError
EtlMissingAliasTable ==
  /\ Quiet
  /\ n_runs < MaxEtlRuns
  /\ ~load_alias_map_from_db.ok
  /\ \E batch \in Batches :
       etl' = [EtlIdle EXCEPT !.pc = "failed", !.err = "RuntimeError", !.batch = batch,
                              !.wf0 = waits_fact, !.un0 = unresolved_names]
  /\ n_runs' = n_runs + 1
  /\ UNCHANGED <<schema, pavilion_dim, pavilion_alias, pavilion_geometry,
                 waits_fact, unresolved_names, n_loads, load, dash, pvars>>

\* the raw CSV of a run: any batch for a new process, the same file again
\* when main is run a second time right after a completed run
InputsOf(e) == IF e.pc = "done" THEN {e.batch} ELSE Batches

\* steps 1 to 5 of main (read, parse, enrich, resolve, split, deduplicate),
\* then connect and ensure_etl_tables: CREATE TABLE IF NOT EXISTS, outside
\* any transaction
EtlTransform ==
  /\ etl.pc \in {"idle", "done"}
  /\ n_runs < MaxEtlRuns
  /\ load_alias_map_from_db.ok
  /\ \E batch \in InputsOf(etl) :
       LET alias_map == load_alias_map_from_db.rows
           df == Transform(batch, alias_map)
       IN etl' = [EtlIdle EXCEPT
                    !.pc = "ensured", !.batch = batch,
                    !.alias0 = alias_map, !.alias_present = schema.alias,
                    !.rerun = (etl.pc = "done"),
                    !.cleaned = CleanedOf(df), !.unresolved = UnresolvedOf(df),
                    !.wf0 = waits_fact, !.un0 = unresolved_names,
                    !.tx_wf = waits_fact, !.tx_un = unresolved_names]
  /\ schema' = [schema EXCEPT !.wf = IF @ = "absent" THEN "v1" ELSE @, !.un = TRUE]
  /\ n_runs' = n_runs + 1
  /\ UNCHANGED <<pavilion_dim, pavilion_alias, pavilion_geometry,
                 waits_fact, unresolved_names, n_loads, load, dash, pvars>>

\* the process ends
EtlExit ==
  /\ etl.pc \in {"done", "failed"}
  /\ etl' = EtlIdle
  /\ UNCHANGED <<schema, pavilion_dim, pavilion_alias, pavilion_geometry,
                 waits_fact, unresolved_names, n_runs, n_loads, load, dash, pvars>>

\* the rollback of "with sqlite3.connect(...)" when the block raises
Rollback(err) ==
  [etl EXCEPT !.pc = "failed", !.err = err, !.tx_wf = <<>>, !.tx_un = <<>>]

\* upsert_waits_fact: stage, INSERT OR IGNORE inside the transaction, drop.
\* The INSERT raises on a foreign key violation.
EtlUpsertWaitsFact ==
  /\ etl.pc = "ensured"
  /\ schema.wf = "v1"
  /\ LET after == upsert_waits_fact(waits_fact, etl.cleaned) IN
       IF ForeignKeyOk(waits_fact, after, pavilion_dim)
         THEN etl' = [etl EXCEPT !.pc = "upserted", !.tx_wf = after]
         ELSE etl' = Rollback("IntegrityError")
  /\ UNCHANGED <<schema, pavilion_dim, pavilion_alias, pavilion_geometry,
                 waits_fact, unresolved_names, n_runs, n_loads, load, dash, pvars>>

\* upsert_waits_fact on the waits_fact of init_db.py, never migrated: the
\* INSERT names the columns day and hour and raises OperationalError
EtlUpsertNoDayColumn ==
  /\ etl.pc = "ensured"
  /\ schema.wf = "v0"
  /\ etl' = Rollback("OperationalError")
  /\ UNCHANGED <<schema, pavilion_dim, pavilion_alias, pavilion_geometry,
                 waits_fact, unresolved_names, n_runs, n_loads, load, dash, pvars>>

\* insert_unresolved, first half: DataFrame.to_sql stages _tmp_unresolved and
\* commits the connection, the pending waits_fact rows with it
EtlStageUnresolved ==
  /\ etl.pc = "upserted"
  /\ Len(etl.unresolved) > 0
  /\ waits_fact' = etl.tx_wf
  /\ etl' = [etl EXCEPT !.pc = "staged"]
  /\ UNCHANGED <<schema, pavilion_dim, pavilion_alias, pavilion_geometry,
                 unresolved_names, n_runs, n_loads, load, dash, pvars>>

\* insert_unresolved, second half: INSERT OR IGNORE inside a new transaction
EtlInsertUnresolved ==
  /\ etl.pc = "staged"
  /\ etl' = [etl EXCEPT !.pc = "quarantined",
                        !.tx_un = insert_unresolved(unresolved_names, etl.unresolved)]
  /\ UNCHANGED <<schema, pavilion_dim, pavilion_alias, pavilion_geometry,
                 waits_fact, unresolved_names, n_runs, n_loads, load, dash, pvars>>

\* a run without unresolved rows that prunes the quarantine of the names
\* the alias table resolves by now
EtlSkipUnresolvedPruning ==
  /\ etl.pc = "upserted"
  /\ Len(etl.unresolved) = 0
  /\ LET StillUnknown(u) ==
           resolve_pavilion_id(u.pavilion_name_raw, etl.alias0) = None
     IN etl' = [etl EXCEPT !.pc = "quarantined",
                           !.tx_un = SelectSeq(etl.tx_un, StillUnknown)]
  /\ UNCHANGED <<schema, pavilion_dim, pavilion_alias, pavilion_geometry,
                 waits_fact, unresolved_names, n_runs, n_loads, load, dash, pvars>>

\* "if not unresolved.empty" is false
EtlSkipUnresolved ==
  /\ etl.pc = "upserted"
  /\ Len(etl.unresolved) = 0
  /\ etl' = [etl EXCEPT !.pc = "quarantined"]
  /\ UNCHANGED <<schema, pavilion_dim, pavilion_alias, pavilion_geometry,
                 waits_fact, unresolved_names, n_runs, n_loads, load, dash, pvars>>

\* the commit of a run that also registers the unknown names as aliases
EtlCommitRegisteringAliases ==
  /\ etl.pc = "quarantined"
  /\ waits_fact' = etl.tx_wf
  /\ unresolved_names' = etl.tx_un
  /\ pavilion_alias' =
       InsertOrIgnore(pavilion_alias,
                      [i \in 1..Len(etl.tx_un) |->
                         [ alias |-> normalize_name(etl.tx_un[i].pavilion_name_raw).s,
                           pavilion_id |-> pav_id_from_norm(
                                             normalize_name(etl.tx_un[i].pavilion_name_raw).s) ]],
                      ALIAS_PK)
  /\ etl' = [etl EXCEPT !.pc = "done", !.tx_wf = <<>>, !.tx_un = <<>>]
  /\ UNCHANGED <<schema, pavilion_dim, pavilion_geometry,
                 n_runs, n_loads, load, dash, pvars>>

\* leaving the with block: commit
EtlCommit ==
  /\ etl.pc = "quarantined"
  /\ waits_fact' = etl.tx_wf
  /\ unresolved_names' = etl.tx_un
  /\ etl' = [etl EXCEPT !.pc = "done", !.tx_wf = <<>>, !.tx_un = <<>>]
  /\ UNCHANGED <<schema, pavilion_dim, pavilion_alias, pavilion_geometry,
                 n_runs, n_loads, load, dash, pvars>>

\* a storage error (disk full, database locked, ...) raised by any statement
\* of the write step: the with block rolls back what is not committed yet
EtlStorageError ==
  /\ etl.pc \in {"ensured", "upserted", "staged", "quarantined"}
  /\ etl' = [Rollback("OperationalError") EXCEPT !.faulted = TRUE]
  /\ UNCHANGED <<schema, pavilion_dim, pavilion_alias, pavilion_geometry,
                 waits_fact, unresolved_names, n_runs, n_loads, load, dash, pvars>>

Next ==
  \/ RunInitDb
  \/ RunMigratePhase0
  \/ RunLoadMasterFromGeojson
  \/ RunPreparePavilionMaster
  \/ EtlMissingColumns
  \/ EtlMissingAliasTable
  \/ EtlTransform
  \/ EtlUpsertWaitsFact
  \/ EtlUpsertNoDayColumn
  \/ EtlStageUnresolved
  \/ EtlInsertUnresolved
  \/ EtlSkipUnresolved
  \/ EtlCommit
  \/ EtlStorageError
  \/ EtlExit

Spec == Init /\ [][Next]_vars

\* ------------------------------------------------------------------------
\* Properties of the store and of an ETL run
\* ------------------------------------------------------------------------
\* waits_fact as the ETL connection sees it
FactsSeenByEtl ==
  IF etl.pc \in {"upserted", "staged", "quarantined"} THEN etl.tx_wf ELSE waits_fact

NoTwoFactsShareKey(table) ==
  \A i, j \in 1..Len(table) :
    (table[i].timestamp = table[j].timestamp /\ table[i].pavilion_id = table[j].pavilion_id)
      => i = j

\* the rows of table that were not in it when the run started
NewRows(table, before) == SubSeq(table, Len(before) + 1, Len(table))

AliasKeys(alias_map) == { alias_map[i].alias : i \in 1..Len(alias_map) }

HasName(r) == r.pavilion_name.isStr
HasTimestamp(r) == r.timestamp.kind # "nan"
IsUnknownName(r, alias_map) ==
  HasName(r) /\ normalize_name(r.pavilion_name).s \notin AliasKeys(alias_map)
IsKnownName(r, alias_map) ==
  HasName(r) /\ normalize_name(r.pavilion_name).s \in AliasKeys(alias_map)

AliasTarget(r, alias_map) ==
  LET n == normalize_name(r.pavilion_name).s IN
  alias_map[CHOOSE i \in 1..Len(alias_map) : alias_map[i].alias = n].pavilion_id

\* C1: a second run of the ETL on the same input with the same alias table
\* adds no row to waits_fact: the table after the run is the table before it,
\* and no (timestamp, pavilion_id) pair occurs twice.
C1_UpsertIdempotent ==
  (etl.rerun /\ etl.pc \in {"upserted", "staged", "quarantined", "done"}) =>
    /\ Len(FactsSeenByEtl) = Len(etl.wf0)
    /\ FactsSeenByEtl = etl.wf0
    /\ NoTwoFactsShareKey(FactsSeenByEtl)

C1_Witness ==
  /\ etl.rerun /\ etl.pc = "done"
  /\ Len(etl.cleaned) > 0
  /\ \E i \in 1..Len(waits_fact) :
       /\ waits_fact[i].timestamp = etl.cleaned[1].timestamp
       /\ waits_fact[i].pavilion_name_raw = etl.cleaned[1].pavilion_name

\* C2: no two rows of waits_fact share both timestamp and pavilion_id, in the
\* committed table and in the table as the writing connection sees it.
C2_FactKeyUnique ==
  /\ NoTwoFactsShareKey(waits_fact)
  /\ NoTwoFactsShareKey(etl.tx_wf)

\* a batch in which two raw spellings of one pavilion share a timestamp has
\* been written
C2_Witness ==
  /\ etl.pc = "done"
  /\ \E i, j \in 1..Len(etl.cleaned) :
       /\ etl.cleaned[i].pavilion_name # etl.cleaned[j].pavilion_name
       /\ etl.cleaned[i].timestamp = etl.cleaned[j].timestamp
       /\ etl.cleaned[i].pavilion_id = etl.cleaned[j].pavilion_id
       /\ \E k \in 1..Len(waits_fact) :
            /\ waits_fact[k].timestamp = etl.cleaned[i].timestamp
            /\ waits_fact[k].pavilion_id = etl.cleaned[i].pavilion_id[1]

\* C3: a stored waits_fact row is never changed or deleted by a later
\* operation: every step leaves each committed row in place with its values.
C3_FactsAppendOnly ==
  [][\A i \in 1..Len(waits_fact) :
       Len(waits_fact') >= i /\ waits_fact'[i] = waits_fact[i]]_vars

\* C4: a failed ETL run leaves waits_fact and unresolved_names as they were
\* when the run started.
C4_FailedRunWritesNothing ==
  etl.pc = "failed" =>
    /\ waits_fact = etl.wf0
    /\ unresolved_names = etl.un0

\* C5: a run that lacks a required column of the raw input, or finds no
\* pavilion_alias table, has raised, and waits_fact and unresolved_names hold
\* exactly the rows they held before the run.
C5_MissingDependencyIsFatal ==
  (etl.pc # "idle" /\ (~etl.cols_ok \/ ~etl.alias_present)) =>
    /\ etl.pc = "failed"
    /\ etl.err \in {"ValueError", "RuntimeError"}
    /\ waits_fact = etl.wf0
    /\ unresolved_names = etl.un0

C5_Witness ==
  /\ etl.pc = "failed" /\ etl.err = "RuntimeError"
  /\ ~schema.alias
  /\ Len(etl.batch) > 0
  /\ waits_fact = <<>> /\ unresolved_names = <<>>

\* the first row of the batch with the timestamp and raw name of r
FirstWithKey(batch, r) ==
  batch[CHOOSE i \in 1..Len(batch) :
          /\ batch[i].timestamp = r.timestamp
          /\ batch[i].pavilion_name = r.pavilion_name
          /\ \A j \in 1..Len(batch) :
               (batch[j].timestamp = r.timestamp /\ batch[j].pavilion_name = r.pavilion_name)
                 => i <= j]

QuarantineKey(r) == <<r.timestamp, r.pavilion_name>>

NewQuarantineKeys(batch, alias_map, before) ==
  { QuarantineKey(batch[i]) : i \in { k \in 1..Len(batch) :
        /\ HasTimestamp(batch[k]) /\ IsUnknownName(batch[k], alias_map)
        /\ QuarantineKey(batch[k]) \notin Keys(before, UNRESOLVED_PK) } }

WeekdayOfDay(d) ==
  CASE d % 7 = 0 -> "NICHI" [] d % 7 = 1 -> "GETSU" [] d % 7 = 2 -> "KA"
    [] d % 7 = 3 -> "SUI" [] d % 7 = 4 -> "MOKU" [] d % 7 = 5 -> "KIN"
    [] OTHER -> "DO"

DerivedFrom(f, r, alias_map) ==
  /\ f.timestamp = r.timestamp
  /\ f.pavilion_name_raw = r.pavilion_name
  /\ f.wait_time_raw = r.wait_time_raw
  /\ f.post_time_raw = r.post_time_raw
  /\ IsKnownName(r, alias_map)
  /\ f.pavilion_id = AliasTarget(r, alias_map)
  /\ f.wait_min = parse_wait_time(r.wait_time_raw)
  /\ f.staleness_min = parse_staleness_min(r.post_time_raw)
  /\ IF r.timestamp.kind = "iso"
       THEN /\ f.weekday = Some(WeekdayOfDay(r.timestamp.d))
            /\ f.hour_range = Some(<<r.timestamp.h, 0>>)
            /\ f.hour = f.hour_range
            /\ f.day = Some(<<2025, 6,
                 ((r.timestamp.d * 24 + r.timestamp.h + 9 - r.timestamp.off) \div 24) + 1>>)
       ELSE f.weekday = None /\ f.hour = None /\ f.day = None

\* C7: after a completed run, every fact the run stored is derived from a raw
\* row of the batch whose name resolves (pavilion_id from the alias, wait_min
\* and staleness_min from the parsers, weekday, hour and day from the
\* timestamp), every resolving row with a timestamp has its fact, and the row
\* (2025-06-01T11:05:00+09:00, IRELAND, 1h30, 5 minutes ago) is stored as
\* 90, 5, Sunday, 11:00, 2025-06-01.
C7_ResolvedRowIsStoredDerived ==
  /\ etl.pc = "done" =>
       /\ \A k \in 1..Len(NewRows(waits_fact, etl.wf0)) :
            \E i \in 1..Len(etl.batch) :
              DerivedFrom(NewRows(waits_fact, etl.wf0)[k], etl.batch[i], etl.alias0)
       /\ \A i \in 1..Len(etl.batch) :
            (HasTimestamp(etl.batch[i]) /\ IsKnownName(etl.batch[i], etl.alias0)) =>
              \E k \in 1..Len(waits_fact) :
                /\ waits_fact[k].timestamp = etl.batch[i].timestamp
                /\ waits_fact[k].pavilion_id = AliasTarget(etl.batch[i], etl.alias0)
  /\ \A k \in 1..Len(waits_fact) :
       ( /\ waits_fact[k].timestamp = T1
         /\ waits_fact[k].wait_time_raw = W_1H30
         /\ waits_fact[k].post_time_raw = P_5 ) =>
         /\ waits_fact[k].wait_min = Some(90)
         /\ waits_fact[k].staleness_min = Some(5)
         /\ waits_fact[k].weekday = Some("NICHI")
         /\ waits_fact[k].hour = Some(<<11, 0>>)
         /\ waits_fact[k].day = Some(<<2025, 6, 1>>)

C7_Witness ==
  /\ etl.pc = "done"
  /\ Len(waits_fact) > Len(etl.wf0)
  /\ \E k \in 1..Len(waits_fact) :
       /\ k > Len(etl.wf0)
       /\ waits_fact[k].pavilion_name_raw = IRELAND
       /\ waits_fact[k].wait_time_raw = W_1H30
       /\ waits_fact[k].wait_min = Some(90)
       /\ waits_fact[k].pavilion_id = make_pavilion_id(IRELAND)

HasDimRow(f) == \E j \in 1..Len(pavilion_dim) : pavilion_dim[j].pavilion_id = f.pavilion_id

\* C8: the pavilion_id of every waits_fact row, committed or pending in the
\* ETL transaction, is the pavilion_id of a pavilion_dim row.
C8_FactReferencesDim ==
  /\ \A i \in 1..Len(waits_fact) : HasDimRow(waits_fact[i])
  /\ \A i \in 1..Len(etl.tx_wf) : HasDimRow(etl.tx_wf[i])

\* facts are stored and the master data has been loaded twice since
C8_Witness ==
  /\ Len(waits_fact) > 0
  /\ n_loads = 2
  /\ Len(pavilion_dim) > 1

\* the normalized form of the canonical name of a pavilion_dim row
NormOfDim(d) == normalize_name(Str(d.name_canonical)).s

\* C12: a pavilion has one identifier whichever master-load tool derives it:
\* the master loads leave one pavilion_dim row per normalized name and one
\* alias row per normalized name, never two rows for one pavilion.
C12_OnePavilionPerName ==
  /\ \A i, j \in 1..Len(pavilion_dim) :
       NormOfDim(pavilion_dim[i]) = NormOfDim(pavilion_dim[j]) => i = j
  /\ \A i, j \in 1..Len(pavilion_alias) :
       pavilion_alias[i].alias = pavilion_alias[j].alias => i = j

HasFeatureName(f) == f.name.isStr /\ Len(f.name.s) > 0

\* the first feature of the collection that stands for pavilion pid
FirstFeatureOf(fc, pid) ==
  fc[CHOOSE i \in 1..Len(fc) :
       /\ HasFeatureName(fc[i]) /\ make_pavilion_id(fc[i].name) = pid
       /\ \A j \in 1..(i - 1) :
            ~(HasFeatureName(fc[j]) /\ make_pavilion_id(fc[j].name) = pid)]

\* C13: after load_master_from_geojson, the pavilion_dim row and the
\* pavilion_geometry row of every named feature of the input hold the name,
\* area and geometry of the first feature of the input that stands for the
\* same pavilion (same name, or a name with the same pavilion_id).
C13_FirstFeatureWins ==
  \A k \in 1..Len(load.fc) :
    HasFeatureName(load.fc[k]) =>
      LET pid == make_pavilion_id(load.fc[k].name)
          first == FirstFeatureOf(load.fc, pid)
      IN /\ \E i \in 1..Len(pavilion_dim) :
              /\ pavilion_dim[i].pavilion_id = pid
              /\ pavilion_dim[i].name_canonical = first.name.s
              /\ pavilion_dim[i].area = first.area
         /\ \E i \in 1..Len(pavilion_geometry) :
              /\ pavilion_geometry[i].pavilion_id = pid
              /\ pavilion_geometry[i].geojson = first.geometry

\* the rows of a table, whatever their rowid
RowSet(table) == { table[i] : i \in 1..Len(table) }

\* C14: a load_master_from_geojson run on the feature collection of the
\* previous run leaves the rows of pavilion_dim, pavilion_alias and
\* pavilion_geometry as they were, and no run removes or re-points an alias
\* that existed before it.
C14_BootstrapIdempotent ==
  [][load' # load =>
       /\ load'.rerun =>
            /\ RowSet(pavilion_dim') = RowSet(pavilion_dim)
            /\ RowSet(pavilion_alias') = RowSet(pavilion_alias)
            /\ RowSet(pavilion_geometry') = RowSet(pavilion_geometry)
       /\ \A i \in 1..Len(pavilion_alias) :
            pavilion_alias[i] \in RowSet(pavilion_alias')]_vars

\* the same feature collection has been loaded twice
C14_Witness ==
  /\ load.rerun
  /\ Len(load.fc) > 0
  /\ Len(load.dim0) > 0 /\ Len(load.alias0) > 0 /\ Len(load.geom0) > 0
  /\ RowSet(pavilion_dim) = RowSet(load.dim0)

\* C15: no step of an ETL run, whatever its input and outcome, changes
\* pavilion_dim, pavilion_alias or pavilion_geometry.
C15_EtlLeavesMasterUnchanged ==
  [][(etl.pc # "idle" \/ etl'.pc # "idle") =>
       /\ pavilion_dim' = pavilion_dim
       /\ pavilion_alias' = pavilion_alias
       /\ pavilion_geometry' = pavilion_geometry]_vars

\* a run has stored a fact and quarantined a name, another has failed, and the
\* master data is there to be changed
C15_Witness ==
  /\ etl.pc = "done"
  /\ Len(waits_fact) > Len(etl.wf0)
  /\ Len(unresolved_names) > Len(etl.un0)
  /\ Len(pavilion_dim) > 0 /\ Len(pavilion_geometry) > 0
  /\ RowSet(pavilion_alias) = RowSet(etl.alias0)

\* the facts of the pavilion called name with a wait_min
FactsWithWait(name) ==
  { i \in 1..Len(waits_fact) :
      /\ waits_fact[i].wait_min # None
      /\ PavilionNameOf(waits_fact[i], pavilion_dim) = name }

RECURSIVE SumOver(_)
SumOver(S) ==
  IF S = {} THEN 0
  ELSE LET i == CHOOSE x \in S : TRUE IN waits_fact[i].wait_min[1] + SumOver(S \ {i})

NamedPavilions ==
  { PavilionNameOf(waits_fact[i], pavilion_dim) : i \in 1..Len(waits_fact) }

\* C16: get_ranking(days=None, top_n=20) returns at most 20 rows in order of
\* non-increasing avg_wait, one row per pavilion at most; avg_wait of a row is
\* the mean of the non-null wait_min of its pavilion's facts and n their
\* number; a pavilion without a non-null wait_min has no row, and a pavilion
\* is left out only when 20 rows of at least its average are returned.
C16_RankingTop20 ==
  (dash.op = "get_ranking" /\ dash.req.cutoff = None /\ dash.req.top_n = TOP_N) =>
    LET res == dash.res IN
    /\ Len(res) <= 20
    /\ \A i \in 1..(Len(res) - 1) :
         res[i].avg_wait.num * res[i + 1].avg_wait.den
           >= res[i + 1].avg_wait.num * res[i].avg_wait.den
    /\ \A i, j \in 1..Len(res) : res[i].pavilion_name = res[j].pavilion_name => i = j
    /\ \A i \in 1..Len(res) :
         /\ FactsWithWait(res[i].pavilion_name) # {}
         /\ res[i].n = Cardinality(FactsWithWait(res[i].pavilion_name))
         /\ res[i].avg_wait.den = res[i].n
         /\ res[i].avg_wait.num = SumOver(FactsWithWait(res[i].pavilion_name))
    /\ \A name \in NamedPavilions :
         (FactsWithWait(name) # {} /\ \A i \in 1..Len(res) : res[i].pavilion_name # name) =>
           /\ Len(res) = 20
           /\ SumOver(FactsWithWait(name)) * res[20].avg_wait.den
                <= res[20].avg_wait.num * Cardinality(FactsWithWait(name))

\* 22 pavilions have a wait_min, one has facts without any, and the ranking
\* has been cut to 20 rows
C16_Witness ==
  /\ dash.op = "get_ranking" /\ dash.req.cutoff = None /\ dash.req.top_n = TOP_N
  /\ Len(dash.res) = 20
  /\ Cardinality({ name \in NamedPavilions : FactsWithWait(name) # {} }) > 20
  /\ \E name \in NamedPavilions : FactsWithWait(name) = {}

HasGeometry(pid) == \E i \in 1..Len(pavilion_geometry) : pavilion_geometry[i].pavilion_id = pid

\* C18: get_geo_rows answers a request whose selector is incomplete, and a
\* request of an unknown mode (latest included), with the empty list and
\* without a query; every row of a complete request is the row of a pavilion
\* that has a pavilion_geometry row and carries its coordinates, one row per
\* pavilion at most.
C18_GeoRowsIncompleteIsEmpty ==
  dash.op = "get_geo_rows" =>
    LET r == dash.req
        complete ==
          \/ r.mode = "date" /\ r.day # None /\ r.day # Some(EmptyText)
          \/ r.mode = "date_hour" /\ r.day # None /\ r.day # Some(EmptyText)
                                  /\ r.hour # None /\ r.hour # Some(EmptyText)
          \/ r.mode = "weekday" /\ r.weekday # None /\ r.weekday # Some("")
          \/ r.mode = "hour" /\ r.hour # None /\ r.hour # Some(EmptyText)
    IN /\ ~complete => (dash.res.rows = <<>> /\ ~dash.res.queried)
       /\ complete => dash.res.queried
       /\ \A i \in 1..Len(dash.res.rows) :
            /\ HasGeometry(dash.res.rows[i].pavilion_id)
            /\ dash.res.rows[i].lonlat \in Points
       /\ \A i, j \in 1..Len(dash.res.rows) :
            dash.res.rows[i].pavilion_id = dash.res.rows[j].pavilion_id => i = j

\* a complete request has returned a pavilion with geometry while a pavilion
\* without geometry matches the selector too
C18_Witness ==
  /\ dash.op = "get_geo_rows" /\ dash.req.mode = "date_hour"
  /\ Len(dash.res.rows) > 0
  /\ \E i \in 1..Len(waits_fact) :
       /\ ~HasGeometry(waits_fact[i].pavilion_id)
       /\ waits_fact[i].wait_min # None
       /\ waits_fact[i].day = dash.req.day /\ waits_fact[i].hour = dash.req.hour

\* the facts of a pavilion on a Monday (GETSU) that have a wait_min
MondayFacts(pid) ==
  { i \in 1..Len(waits_fact) :
      /\ waits_fact[i].pavilion_id = pid
      /\ waits_fact[i].wait_min # None
      /\ waits_fact[i].weekday = Some("GETSU") }

FactPavilions == { waits_fact[i].pavilion_id : i \in 1..Len(waits_fact) }

\* C17: the aggregate of weekday GETSU (Monday) with min_samples 3, asked of
\* get_geo_rows or of the aggregate export, holds no pavilion of fewer than 3
\* Monday facts with a wait_min, and holds every pavilion with geometry that
\* has at least 3.
C17_MinSamplesThreshold ==
  LET asked ==
        \/ dash.op = "get_geo_rows" /\ dash.req.mode = "weekday"
                                     /\ dash.req.weekday = Some("GETSU")
        \/ dash.op = "export_aggregate"
             /\ dash.req.filters = Filters(<<>>, None, None, <<"GETSU">>, <<>>, MIN_SAMPLES)
      answered ==
        IF dash.op = "get_geo_rows"
          THEN { dash.res.rows[i].pavilion_id : i \in 1..Len(dash.res.rows) }
          ELSE { dash.res.feats[i].properties.pavilion_id : i \in 1..Len(dash.res.feats) }
  IN asked =>
       /\ \A pid \in answered : Cardinality(MondayFacts(pid)) >= MIN_SAMPLES
       /\ \A pid \in FactPavilions :
            (HasGeometry(pid) /\ Cardinality(MondayFacts(pid)) >= MIN_SAMPLES)
              => pid \in answered

\* the facts of a pavilion that no other fact of the pavilion is newer than
NewestFacts(pid) ==
  { i \in 1..Len(waits_fact) :
      /\ waits_fact[i].pavilion_id = pid
      /\ \A j \in 1..Len(waits_fact) :
           waits_fact[j].pavilion_id = pid
             => TimestampLE(waits_fact[j].timestamp, waits_fact[i].timestamp) }

\* C19: export_latest completes on every store, pavilions with facts and no
\* pavilion_geometry row included; it emits one feature per pavilion at
\* most, each from the newest fact of the pavilion; under a freshness
\* ceiling every feature has a staleness_min of at most the ceiling.
C19_LatestExport ==
  dash.op = "export_latest" =>
    LET feats == dash.res.feats
    IN /\ dash.res.ok
       /\ \A i, j \in 1..Len(feats) :
            feats[i].properties.pavilion_id = feats[j].properties.pavilion_id => i = j
       /\ \A i \in 1..Len(feats) :
            \E k \in NewestFacts(feats[i].properties.pavilion_id) :
              /\ feats[i].properties.wait_min = waits_fact[k].wait_min
              /\ feats[i].properties.staleness_min = waits_fact[k].staleness_min
              /\ feats[i].properties.data_time_jst = waits_fact[k].data_time_jst
       /\ dash.req.fresh_within # None =>
            \A i \in 1..Len(feats) :
              /\ feats[i].properties.staleness_min # None
              /\ feats[i].properties.staleness_min[1] <= dash.req.fresh_within[1]

\* ------------------------------------------------------------------------
\* The dashboard beside a running ETL
\* ------------------------------------------------------------------------
\* the masters after init_db, migrate_phase0 and load_master_from_geojson on
\* both collections; no name of the raw CSV is registered beyond them
ServeDim ==
  LoadDim(LoadDim(<<>>, GeojsonRowsDim(ByName(FC_IRELAND, {}))),
          GeojsonRowsDim(ByName(FC_GAS, {})))

ServeAlias ==
  LoadAlias(LoadAlias(<<>>, GeojsonRowsAlias(ByName(FC_IRELAND, {}))),
            GeojsonRowsAlias(ByName(FC_GAS, {})))

InitServe ==
  /\ schema = [dim |-> "full", alias |-> TRUE, geom |-> TRUE, wf |-> "v1", un |-> FALSE]
  /\ pavilion_dim = ServeDim
  /\ pavilion_alias = ServeAlias
  /\ pavilion_geometry = DashGeometry
  /\ waits_fact = <<>>
  /\ unresolved_names = <<>>
  /\ etl = EtlIdle
  /\ n_runs = 0
  /\ n_loads = 0
  /\ load = NoLoad
  /\ dash = NoDash
  /\ InitText

\* a callback of the dashboard: open_conn, its SELECTs over waits_fact, close.
\* The connection is opened for the callback alone and reads what is
\* committed; res is what it reads, seen what the callbacks before it read
DashQuery ==
  /\ LET Unseen(r) == \A i \in 1..Len(dash.seen) : dash.seen[i] # r
     IN dash' = [ op |-> "query", req |-> <<>>, res |-> waits_fact,
                  seen |-> dash.seen \o SelectSeq(dash.res, Unseen) ]
  /\ UNCHANGED storevars

NextServe ==
  \/ EtlTransform
  \/ EtlUpsertWaitsFact
  \/ EtlStageUnresolved
  \/ EtlInsertUnresolved
  \/ EtlSkipUnresolved
  \/ EtlCommit
  \/ EtlStorageError
  \/ EtlExit
  \/ DashQuery

SpecServe == InitServe /\ [][NextServe]_vars

\* the facts the callbacks have read so far
Observed == RowSet(dash.seen) \cup RowSet(dash.res)

\* C20: beside a running ETL, a fact that a callback has read is read again,
\* field by field the same, by every later callback; and when the ETL run
\* rolls back, no callback has read a waits_fact row of its batch.
C20_ReadersSafe ==
  [][ /\ dash' # dash => \A r \in Observed : r \in RowSet(dash'.res)
      /\ (etl.pc # "failed" /\ etl'.pc = "failed")
           => \A r \in Observed : r \in RowSet(etl.wf0) ]_vars

\* ------------------------------------------------------------------------
\* The text parsers applied to every short text
\* ------------------------------------------------------------------------
WaitAlphabet == {"1", "2", "JIKAN", "FUN", "IKA", " ", "-"}
WaitSentinelTokens == {"JOUHOU_NASHI", "FUMEI", "EM_DASH"}
StaleAlphabet == {"6", "0", "FUN", "JIKAN", "IJOU", "MAE", " "}

InitParse ==
  /\ InitDb
  /\ p_raw \in {Str(<<>>), NonStr}
  /\ p_res = None
  /\ p_called = FALSE

TypeWait ==
  /\ p_raw.isStr /\ ~p_called
  /\ Len(p_raw.s) < MaxWaitLen
  /\ \E c \in WaitAlphabet \cup (IF Len(p_raw.s) = 0 THEN WaitSentinelTokens ELSE {}) :
       p_raw' = Str(Append(p_raw.s, c))
  /\ UNCHANGED <<p_res, p_called, dbvars>>

CallParseWait ==
  /\ ~p_called
  /\ p_res' = parse_wait_time(p_raw)
  /\ p_called' = TRUE
  /\ UNCHANGED <<p_raw, dbvars>>

TypeStale ==
  /\ p_raw.isStr /\ ~p_called
  /\ Len(p_raw.s) < MaxStaleLen
  /\ \E c \in StaleAlphabet : p_raw' = Str(Append(p_raw.s, c))
  /\ UNCHANGED <<p_res, p_called, dbvars>>

CallParseStale ==
  /\ ~p_called
  /\ p_res' = parse_staleness_min(p_raw)
  /\ p_called' = TRUE
  /\ UNCHANGED <<p_raw, dbvars>>

NextWait == TypeWait \/ CallParseWait
NextStale == TypeStale \/ CallParseStale

SpecWait == InitParse /\ [][NextWait]_vars
SpecStale == InitParse /\ [][NextStale]_vars

\* ------------------------------------------------------------------------
\* Reference shapes of the duration texts
\* ------------------------------------------------------------------------
IsNumber(d) == Len(d) > 0 /\ \A i \in 1..Len(d) : IsDigit(d[i])

\* the texts  <a> x <b> y  with a, b digit runs: all (a, b) that split s so
SplitsHM(s, mid, tail) ==
  { i \in 1..Len(s) :
      /\ IsNumber(SubSeq(s, 1, i))
      /\ Len(s) >= i + Len(mid) + 1 + Len(tail)
      /\ SubSeq(s, i + 1, i + Len(mid)) = mid
      /\ IsNumber(SubSeq(s, i + Len(mid) + 1, Len(s) - Len(tail)))
      /\ SubSeq(s, Len(s) - Len(tail) + 1, Len(s)) = tail }

ValueHM(s, mid, tail, i) ==
  int(SubSeq(s, 1, i)) * 60 + int(SubSeq(s, i + Len(mid) + 1, Len(s) - Len(tail)))

\* the text  <a> tail  with a a digit run
IsNumThen(s, tail) ==
  /\ Len(s) > Len(tail)
  /\ IsNumber(SubSeq(s, 1, Len(s) - Len(tail)))
  /\ SubSeq(s, Len(s) - Len(tail) + 1, Len(s)) = tail

NumOf(s, tail) == int(SubSeq(s, 1, Len(s) - Len(tail)))

WaitReference(raw) ==
  IF ~raw.isStr THEN None
  ELSE LET s == strip(raw.s) IN
    IF SplitsHM(s, <<"JIKAN">>, <<"FUN", "IKA">>) # {}
      THEN Some(ValueHM(s, <<"JIKAN">>, <<"FUN", "IKA">>,
                        CHOOSE i \in SplitsHM(s, <<"JIKAN">>, <<"FUN", "IKA">>) : TRUE))
    ELSE IF SplitsHM(s, <<"JIKAN">>, <<"FUN">>) # {}
      THEN Some(ValueHM(s, <<"JIKAN">>, <<"FUN">>,
                        CHOOSE i \in SplitsHM(s, <<"JIKAN">>, <<"FUN">>) : TRUE))
    ELSE IF IsNumThen(s, <<"FUN", "IKA">>) THEN Some(NumOf(s, <<"FUN", "IKA">>))
    ELSE IF IsNumThen(s, <<"FUN">>) THEN Some(NumOf(s, <<"FUN">>))
    ELSE None

StaleReference(raw) ==
  IF ~raw.isStr THEN None
  ELSE LET s == strip(raw.s) IN
    IF s = <<"6", "0", "FUN", "IJOU", "MAE">> THEN Some(60)
    ELSE IF IsNumThen(s, <<"FUN", "MAE">>) THEN Some(NumOf(s, <<"FUN", "MAE">>))
    ELSE IF IsNumThen(s, <<"JIKAN", "MAE">>) THEN Some(NumOf(s, <<"JIKAN", "MAE">>) * 60)
    ELSE None

\* ------------------------------------------------------------------------
\* normalize_name applied to every short name
\* ------------------------------------------------------------------------
NameAlphabet ==
  {"e", "COMBINING_ACUTE", "ACUTE_ACCENT", "E_ACUTE", " ", "IDEOGRAPHIC_SPACE", "FULLWIDTH_I"}

InitName ==
  /\ InitDb
  /\ p_raw \in {Str(<<>>), NonStr}
  /\ p_res = NonStr
  /\ p_called = FALSE

TypeName ==
  /\ p_raw.isStr /\ ~p_called
  /\ Len(p_raw.s) < MaxNameLen
  /\ \E c \in NameAlphabet : p_raw' = Str(Append(p_raw.s, c))
  /\ UNCHANGED <<p_res, p_called, dbvars>>

CallNormalizeName ==
  /\ ~p_called
  /\ p_res' = normalize_name(p_raw)
  /\ p_called' = TRUE
  /\ UNCHANGED <<p_raw, dbvars>>

NextName == TypeName \/ CallNormalizeName

SpecName == InitName /\ [][NextName]_vars

\* C11: normalize_name applied to its own result returns that result: for
\* every name x, normalize_name(normalize_name(x)) = normalize_name(x), and
\* a non-string is returned unchanged.
C11_NormalizeIdempotent ==
  p_called =>
    /\ normalize_name(p_res) = p_res
    /\ ~p_raw.isStr => p_res = p_raw

C10_ParseStaleMatchesReference ==
  p_called =>
    /\ p_res = StaleReference(p_raw)
    /\ (p_raw.isStr /\ strip(p_raw.s) = <<"6", "0", "FUN", "IJOU", "MAE">>) => p_res = Some(60)
    /\ (p_raw.isStr /\ Len(strip(p_raw.s)) >= 3
          /\ SubSeq(strip(p_raw.s), Len(strip(p_raw.s)) - 2, Len(strip(p_raw.s))) = <<"FUN", "IJOU", "MAE">>
          /\ strip(p_raw.s) # <<"6", "0", "FUN", "IJOU", "MAE">>) => p_res = None

C10_Witness ==
  /\ p_called
  /\ p_raw = Str(<<"6", "0", "FUN", "IJOU", "MAE">>)
  /\ p_res = Some(60)
\* ------------------------------------------------------------------------
\* The read side on a populated store
\* ------------------------------------------------------------------------
NextDash ==
  \/ QueryRanking
  \/ QueryGeoRows
  \/ ExportAggregate
  \/ ExportLatest

SpecDash == InitDash /\ [][NextDash]_vars

\* ------------------------------------------------------------------------
\* Properties of the rows a run passes on
\* ------------------------------------------------------------------------
\* the write step of the run has been entered
Writing == etl.pc \in {"ensured", "upserted", "staged", "quarantined", "done"}

\* the resolved rows of the batch of the run, in input order
ResolvedOfRun == SelectSeq(Transform(etl.batch, etl.alias0), IsResolved)

SamePair(a, b) == a.timestamp = b.timestamp /\ a.pavilion_name = b.pavilion_name

\* C21: the rows passed to upsert_waits_fact are the resolved rows of the
\* batch that no earlier resolved row shares (timestamp, pavilion_name)
\* with, in input order: one row, the first, for each pair, and every pair.
C21_FirstOfEachPairIsPassed ==
  Writing =>
    LET res == ResolvedOfRun
        firsts == { i \in 1..Len(res) : \A j \in 1..(i - 1) : ~SamePair(res[j], res[i]) }
    IN /\ Len(etl.cleaned) = Cardinality(firsts)
       /\ \A i \in firsts : \E k \in 1..Len(etl.cleaned) : etl.cleaned[k] = res[i]
       /\ \A k, l \in 1..Len(etl.cleaned) :
            SamePair(etl.cleaned[k], etl.cleaned[l]) => k = l
       /\ \A k, l \in 1..Len(etl.cleaned) :
            k < l => \E i, j \in firsts :
                       i < j /\ res[i] = etl.cleaned[k] /\ res[j] = etl.cleaned[l]

\* a batch whose two resolved rows share the pair and differ in the wait has
\* been passed on as its first row
C21_Witness ==
  /\ Writing
  /\ Len(ResolvedOfRun) = 2 /\ Len(etl.cleaned) = 1
  /\ SamePair(ResolvedOfRun[1], ResolvedOfRun[2])
  /\ ResolvedOfRun[1] # ResolvedOfRun[2]
  /\ etl.cleaned[1] = ResolvedOfRun[1]

BadTimestamp(r) == r.timestamp.kind = "bad"
GoodTimestamp(r) == r.timestamp.kind # "bad"

\* waits_fact after the run on the batch without its bad-timestamp rows
FactsWithoutBadRows ==
  upsert_waits_fact(etl.wf0, CleanedOf(Transform(SelectSeq(etl.batch, GoodTimestamp), etl.alias0)))

\* C22: a run on a batch with unparseable timestamps fails for a reason that
\* is not the timestamp only (a fault of the store, a missing table or
\* column, a pavilion_id without pavilion_dim row); when it completes, the
\* facts of the other rows carry the weekday, hour, day and data_time_jst
\* that the batch without the bad rows gives them, and every bad-timestamp
\* row that resolves has its fact, which the run writes with weekday, hour
\* and day null.
C22_BadTimestampDoesNotBlock ==
  (\E i \in 1..Len(etl.batch) : BadTimestamp(etl.batch[i])) =>
    /\ etl.pc = "failed" =>
         \/ etl.faulted
         \/ ~etl.alias_present
         \/ schema.wf = "v0"
         \/ /\ etl.err = "IntegrityError"
            /\ \E k \in 1..Len(etl.cleaned) :
                 \A j \in 1..Len(pavilion_dim) :
                   pavilion_dim[j].pavilion_id # etl.cleaned[k].pavilion_id[1]
    /\ etl.pc = "done" =>
         /\ \A k \in 1..Len(FactsWithoutBadRows) :
              \E m \in 1..Len(waits_fact) :
                /\ waits_fact[m].timestamp = FactsWithoutBadRows[k].timestamp
                /\ waits_fact[m].pavilion_id = FactsWithoutBadRows[k].pavilion_id
                /\ waits_fact[m].weekday = FactsWithoutBadRows[k].weekday
                /\ waits_fact[m].hour = FactsWithoutBadRows[k].hour
                /\ waits_fact[m].day = FactsWithoutBadRows[k].day
                /\ waits_fact[m].data_time_jst = FactsWithoutBadRows[k].data_time_jst
         /\ \A i \in 1..Len(etl.batch) :
              (BadTimestamp(etl.batch[i]) /\ IsKnownName(etl.batch[i], etl.alias0)) =>
                /\ \E m \in 1..Len(waits_fact) :
                     /\ waits_fact[m].timestamp = etl.batch[i].timestamp
                     /\ waits_fact[m].pavilion_id = AliasTarget(etl.batch[i], etl.alias0)
                /\ \A m \in (Len(etl.wf0) + 1)..Len(waits_fact) :
                     (/\ waits_fact[m].timestamp = etl.batch[i].timestamp
                      /\ waits_fact[m].pavilion_id = AliasTarget(etl.batch[i], etl.alias0))
                       => /\ waits_fact[m].weekday = None
                          /\ waits_fact[m].hour = None
                          /\ waits_fact[m].day = None

\* a run on a batch of a bad-timestamp row and a parsed row, both resolving,
\* has completed and stored both
C22_Witness ==
  /\ etl.pc = "done"
  /\ \E i, j \in 1..Len(etl.batch) :
       /\ BadTimestamp(etl.batch[i]) /\ IsKnownName(etl.batch[i], etl.alias0)
       /\ etl.batch[j].timestamp.kind = "iso" /\ IsKnownName(etl.batch[j], etl.alias0)
       /\ \E m, n \in 1..Len(NewRows(waits_fact, etl.wf0)) :
            /\ NewRows(waits_fact, etl.wf0)[m].timestamp = etl.batch[i].timestamp
            /\ NewRows(waits_fact, etl.wf0)[n].timestamp = etl.batch[j].timestamp
            /\ NewRows(waits_fact, etl.wf0)[m].day = None
            /\ NewRows(waits_fact, etl.wf0)[n].weekday # None

\* the raw row has its fact: its timestamp and the pavilion_id of its name
HasFact(r) ==
  /\ IsKnownName(r, etl.alias0)
  /\ \E m \in 1..Len(waits_fact) :
       /\ waits_fact[m].timestamp = r.timestamp
       /\ waits_fact[m].pavilion_id = AliasTarget(r, etl.alias0)

\* the raw row has its unresolved_names row: its timestamp and its raw name
HasUnresolvedRecord(r) ==
  \E m \in 1..Len(unresolved_names) :
    /\ unresolved_names[m].timestamp = r.timestamp
    /\ unresolved_names[m].pavilion_name_raw = r.pavilion_name

\* C23: after a completed run every raw row of the batch that has a
\* timestamp, the rows without a name or with a name that is no text
\* included, has its fact or its unresolved_names row, and none has both
\* newly written by the run.
C23_NoReportLost ==
  etl.pc = "done" =>
    \A i \in 1..Len(etl.batch) :
      HasTimestamp(etl.batch[i]) =>
        /\ HasFact(etl.batch[i]) \/ HasUnresolvedRecord(etl.batch[i])
        /\ ~ /\ \E m \in (Len(etl.wf0) + 1)..Len(waits_fact) :
                  /\ waits_fact[m].timestamp = etl.batch[i].timestamp
                  /\ waits_fact[m].pavilion_name_raw = etl.batch[i].pavilion_name
              /\ \E n \in (Len(etl.un0) + 1)..Len(unresolved_names) :
                  /\ unresolved_names[n].timestamp = etl.batch[i].timestamp
                  /\ unresolved_names[n].pavilion_name_raw = etl.batch[i].pavilion_name

\* C24: every fact of a parsed timestamp, whatever its UTC offset, has the
\* weekday of its day and the hour of its data_time_jst.
C24_TimeFeaturesAgree ==
  \A m \in 1..Len(waits_fact) :
    (/\ waits_fact[m].timestamp.kind = "iso"
     /\ waits_fact[m].data_time_jst # None
     /\ waits_fact[m].day # None /\ waits_fact[m].day # Some(EmptyText)) =>
      /\ waits_fact[m].weekday = Some(WeekdayOfDay(waits_fact[m].day[1][3] - 1))
      /\ waits_fact[m].hour = Some(HourText(waits_fact[m].data_time_jst[1].h))

\* the raw row was quarantined before the run
WasQuarantined(r) ==
  \E m \in 1..Len(etl.un0) :
    /\ etl.un0[m].timestamp = r.timestamp
    /\ etl.un0[m].pavilion_name_raw = r.pavilion_name

\* C25: no step of an ETL run removes or changes a row of unresolved_names;
\* after a completed run a raw row that was quarantined before and whose name
\* is an alias by now has its fact and still its unresolved_names row; a run
\* on the input of the run before it, the alias table unchanged, leaves
\* unresolved_names as it was.
C25_QuarantineNeverPruned ==
  /\ [][ (etl.pc # "idle" \/ etl'.pc # "idle") =>
           /\ Len(unresolved_names') >= Len(unresolved_names)
           /\ \A m \in 1..Len(unresolved_names) : unresolved_names'[m] = unresolved_names[m]
       ]_vars
  /\ [](etl.pc = "done" =>
         /\ \A i \in 1..Len(etl.batch) :
              (/\ HasTimestamp(etl.batch[i])
               /\ IsKnownName(etl.batch[i], etl.alias0)
               /\ WasQuarantined(etl.batch[i]))
                => HasFact(etl.batch[i]) /\ HasUnresolvedRecord(etl.batch[i])
         /\ etl.rerun => unresolved_names = etl.un0)

\* the alias of a quarantined name has been added and the run on the same
\* raw row has stored its fact beside the unresolved_names row
C25_Witness ==
  /\ etl.pc = "done"
  /\ \E i \in 1..Len(etl.batch) :
       /\ etl.batch[i].pavilion_name = UNKNOWN
       /\ WasQuarantined(etl.batch[i])
       /\ HasUnresolvedRecord(etl.batch[i])
       /\ \E m \in (Len(etl.wf0) + 1)..Len(waits_fact) :
            /\ waits_fact[m].timestamp = etl.batch[i].timestamp
            /\ waits_fact[m].pavilion_name_raw = UNKNOWN

\* the fact satisfies every filter that is given: the day list or, without
\* one, each end of the date range; the weekday list; the hour list
SatisfiesFilters(w, f) ==
  /\ w.wait_min # None
  /\ IF Len(f.day) > 0 THEN InList(w.day, f.day)
     ELSE /\ TextGiven(f.date_from) =>
               (w.day # None /\ TextLE(f.date_from[1], w.day[1]))
          /\ TextGiven(f.date_to) =>
               (w.day # None /\ TextLE(w.day[1], f.date_to[1]))
  /\ Len(f.weekday) > 0 => InList(w.weekday, f.weekday)
  /\ Len(f.hour) > 0 => InList(w.hour, f.hour)

\* C26: the n facts behind a feature of the aggregate export are the facts
\* of its pavilion that satisfy every given filter, also when the weekday
\* list holds no Japanese label and when date_from comes without date_to.
C26_AggregateHonoursFilters ==
  dash.op = "export_aggregate" =>
    \A i \in 1..Len(dash.res.feats) :
      dash.res.feats[i].properties.n =
        Cardinality({ m \in 1..Len(waits_fact) :
          /\ waits_fact[m].pavilion_id = dash.res.feats[i].properties.pavilion_id
          /\ SatisfiesFilters(waits_fact[m], dash.req.filters) })
====
